---- MODULE Spec2Model ----
(***************************************************************************)
(* Lease-based pull/confirm transfer of netunna-rede-splitter-v2.          *)
(*                                                                         *)
(* The Pull Agent is src/agente/downloader.py (_pull_lease and its         *)
(* helpers).  The Pull Service it talks to (lease-files, confirm-download, *)
(* the TTL sweep) has no source in the repository: it is modelled from     *)
(* spec.md sections 4.9, 4.11 and 5.                                       *)
(*                                                                         *)
(* The split engine is src/modules/eevc_processor.py, eevd_processor.py    *)
(* and eefi_processor.py with src/utils: a mother file (its lines, as      *)
(* sequences of characters) is split into one child file per PV.           *)
(***************************************************************************)
EXTENDS Integers, Sequences, FiniteSets, TLC

\* ------------------------------------------------------------------ bounds
NumFiles  == 2      \* child files known to the Pull Service
MaxLeases == 2      \* lease ids the service hands out in one behaviour
MaxTTL    == 1      \* largest ttl_seconds a request asks for (time units)
MaxRecs   == 3      \* detail records of a mother file
MaxQtd    == 10000  \* records of one class in one EEFI bucket

Files    == 1..NumFiles
LeaseIds == 1..MaxLeases
NoLease  == 0       \* FileState.lease_id absent

Lotes == {"NSA_1", "NSA_2"}
Nomes == {"a.txt", "b.txt"}
Bytes == {"x", "y"}
\* what a GET can deliver: nothing (truncated), or one byte (the stored
\* body of the file, or another body of the same length)
Bodies == {<<>>} \cup {<<b>> : b \in Bytes}
None == <<"None">>      \* no file at a path (never a body: bodies hold only Bytes)
NetErr == <<"neterr">>  \* a GET that raised (never a body)

VARIABLES
  \* ---- deployment (fixed during a behaviour)
  wire,           \* key names of the descriptors on the wire
  VERIFY_SHA256,  \* downloader.py:30
  catalog,        \* per file: lote, nome, declared size, declared sha256
  \* ---- Pull Service
  fstate,         \* FileState table: file -> [state, lease_id]
  leases,         \* FileLease table: lease id -> [status, files, ttl, ok, fail]
  \* ---- Pull Agent: locals of _pull_lease
  pc, lease_id, files, idx, ok_ids, fail_ids,
  \* ---- the agent's disk under LOCAL_RECEIVED
  disk,
  \* ---- observation of the current cycle
  gets,           \* GET requests sent
  neterr,         \* some GET request raised
  confirms,       \* confirm requests sent
  result,         \* how the cycle ended
  \* ---- split engine
  kind,           \* kind of the mother file: "EEVC", "EEVD", "EEFI" ("none": no file)
  lines,          \* the lines of the mother file
  resultado,      \* what the processor left: its return value and the files written
  \* ---- EEFI trailer synthesis (eefi_processor.py:221-248)
  args,           \* the locals the 052 line is built from (<<>>: none)
  \* ---- agent uploader (uploader.py:25-59)
  up,             \* the call of upload_file: position, attempt, POSTs, the file
  \* ---- agent /pull endpoint (agente_routes.py:159-235)
  rota,           \* the request, its answer and the background thread
  \* ---- Integrity Validator (processador_integridade.py, validator_core.py)
  integridade     \* the children folder, the comparison and the return value

srv   == <<fstate, leases>>
engine == <<kind, lines, resultado>>
aux   == <<args, up, rota, integridade>>
\* what no step of the pull protocol changes: the deployment and the
\* split engine's state
env   == <<wire, VERIFY_SHA256, catalog, engine, aux>>
agent == <<pc, lease_id, files, idx, ok_ids, fail_ids, gets, neterr, confirms, result>>
vars  == <<wire, VERIFY_SHA256, catalog, fstate, leases, pc, lease_id, files,
           idx, ok_ids, fail_ids, disk, gets, neterr, confirms, result,
           kind, lines, resultado, args, up, rota, integridade>>

\* ------------------------------------------------------------ pure helpers
\* str.lower() on a hex digest
LowerChar(c) == IF c = "A" THEN "a" ELSE IF c = "B" THEN "b" ELSE c
Lower(s) == [i \in 1..Len(s) |-> LowerChar(s[i])]
Upper(s) == [i \in 1..Len(s) |-> IF s[i] = "a" THEN "A" ELSE IF s[i] = "b" THEN "B" ELSE s[i]]

\* _sha256_file: hexdigest() of the bytes at a path.  SHA-256 is taken to be
\* collision free; hexdigest() yields lowercase digits: a fixed prefix (the
\* digest of the empty file is not empty) and one digit per byte.
sha256_file(body) == <<"e">> \o [i \in 1..Len(body) |-> IF body[i] = "x" THEN "a" ELSE "b"]

\* The bytes the service stores for file f (never empty: a child file holds
\* at least its header and trailer).
FileBody(f) == IF f % 2 = 1 THEN <<"x">> ELSE <<"y">>

\* dest = LOCAL_RECEIVED / lote / nome
Dest(f) == <<catalog[f].lote, catalog[f].nome>>
Dests == Lotes \X Nomes

SeqToSet(s) == {s[i] : i \in 1..Len(s)}

\* ------------------------------------------------- Pull Service (spec 4.9)
\* lease id of the next FileLease: ids are opaque and never reused
FreeLeases == {l \in LeaseIds : leases[l].status = "none"}
NextLeaseId == CHOOSE l \in FreeLeases : \A m \in FreeLeases : l <= m

\* (mutant) the selection forgets to exclude files that are already leased
Eligible_Leased(lotes) ==
  {f \in Files : fstate[f].state \in {"pending", "leased"}
                 /\ (lotes = {} \/ catalog[f].lote \in lotes)}

\* files a lease request may select: state = pending, filtered by lote
Eligible(lotes) ==
  {f \in Files : fstate[f].state = "pending"
                 /\ (lotes = {} \/ catalog[f].lote \in lotes)}

\* stable order (pv, name) is the order of the file ids; at most `limit`
FirstN(S, limit) == {f \in S : Cardinality({g \in S : g < f}) < limit}

LeaseSelect(limit, lotes) == FirstN(Eligible(lotes), limit)

\* lease(limit, lotes, ttl_seconds): one transaction
ServerLease(limit, lotes, ttl) ==
  /\ FreeLeases # {}
  /\ LET l   == NextLeaseId
         sel == LeaseSelect(limit, lotes)
     IN /\ fstate' = [f \in Files |->
                        IF f \in sel THEN [state |-> "leased", lease_id |-> l]
                        ELSE fstate[f]]
        /\ leases' = [leases EXCEPT ![l] =
                        [status |-> "open", files |-> sel, ttl |-> ttl,
                         ok |-> {}, fail |-> {}]]

\* ids that belong to lease l now
Belongs(f, l) == fstate[f].state = "leased" /\ fstate[f].lease_id = l

\* (mutant) confirm does not check that the lease was confirmed before
Confirmable_Closed(l) == l \in LeaseIds /\ leases[l].status \in {"open", "closed"}

\* the leases confirm acts on: open ones
Confirmable(l) == l \in LeaseIds /\ leases[l].status = "open"

\* FileState table after confirm(l, ok, fail)
ConfirmFstate(l, ok, fail) ==
  IF Confirmable(l)
    THEN [f \in Files |->
            IF f \in ok /\ Belongs(f, l)
              THEN [state |-> "downloaded", lease_id |-> NoLease]
            ELSE IF f \in fail /\ Belongs(f, l)
              THEN [state |-> "failed", lease_id |-> NoLease]
            ELSE fstate[f]]
    ELSE fstate

\* FileLease table after confirm(l, ok, fail): open -> closed, outcome kept.
\* The file set is tracked while the lease is open, the deadline while the
\* lease still holds a file.
ConfirmLeases(l, ok, fail) ==
  IF Confirmable(l)
    THEN [leases EXCEPT ![l].status = "closed", ![l].files = {},
                        ![l].ok = ok, ![l].fail = fail,
                        ![l].ttl = IF \E f \in leases[l].files \ (ok \cup fail) :
                                        Belongs(f, l)
                                     THEN @ ELSE 0]
    ELSE leases

\* the answer of confirm(l, ok, fail): 409 for an unknown lease, a rejection
\* for a closed lease confirmed with another outcome
ConfirmReply(l, ok, fail) ==
  IF l \notin LeaseIds \/ leases[l].status = "none" THEN "unknown"
  ELSE IF leases[l].status = "closed"
          /\ (leases[l].ok # ok \/ leases[l].fail # fail) THEN "rejected"
  ELSE "confirmed"

\* confirm(lease_id, ok_ids, fail_ids): one transaction
ServerConfirm(l, ok, fail) ==
  /\ fstate' = ConfirmFstate(l, ok, fail)
  /\ leases' = ConfirmLeases(l, ok, fail)

\* (mutant) the sweep marks leases expired but releases no file
SweepFiles_None == {}

\* (mutant) the sweep also returns failed files to pending
SweepFiles_Failed ==
  {f \in Files : \/ fstate[f].state = "failed"
                 \/ /\ fstate[f].state = "leased"
                    /\ leases[fstate[f].lease_id].ttl = 0}

\* files the sweep releases: leased, deadline passed
SweepFiles == {f \in Files : fstate[f].state = "leased"
                             /\ leases[fstate[f].lease_id].ttl = 0}
SweepLeases == {l \in LeaseIds : leases[l].status = "open" /\ leases[l].ttl = 0}

\* background sweep
Sweep ==
  /\ SweepFiles # {} \/ SweepLeases # {}
  /\ fstate' = [f \in Files |->
                  IF f \in SweepFiles
                    THEN [state |-> "pending", lease_id |-> NoLease]
                    ELSE fstate[f]]
  /\ leases' = [l \in LeaseIds |->
                  IF l \in SweepLeases
                    THEN [leases[l] EXCEPT !.status = "expired", !.files = {}]
                  ELSE leases[l]]
  /\ UNCHANGED <<env, agent, disk>>

\* time passes: the deadline of every lease that still holds something
\* comes one unit closer
Holding(l) == leases[l].status = "open" \/ \E f \in Files : Belongs(f, l)
Running == {l \in LeaseIds : Holding(l) /\ leases[l].ttl > 0}
Tick ==
  /\ Running # {}
  /\ leases' = [l \in LeaseIds |->
                  IF l \in Running THEN [leases[l] EXCEPT !.ttl = @ - 1]
                  ELSE leases[l]]
  /\ UNCHANGED <<env, fstate, agent, disk>>

\* (mutant) the retry also resets files that were delivered
RetryGuard_Done(f) == fstate[f].state \in {"failed", "downloaded"}

\* operator retry: failed -> pending
RetryGuard(f) == fstate[f].state = "failed"
OperatorRetry(f) ==
  /\ RetryGuard(f)
  /\ fstate' = [fstate EXCEPT ![f] = [state |-> "pending", lease_id |-> NoLease]]
  /\ UNCHANGED <<env, leases, agent, disk>>

\* ---------------------------- any agent, seen from the service (spec 4.9)
ClientLease(limit, lotes, ttl) ==
  /\ ServerLease(limit, lotes, ttl)
  /\ UNCHANGED <<env, agent, disk>>

\* a confirm, first or replayed, for any lease id.  The first confirm
\* reports ids of the lease, each in at most one list; a confirm that finds
\* the lease not open is a step that changes nothing whatever it names (C5
\* states that for every outcome), so it is taken with the recorded outcome.
ClientConfirm(l, ok, fail) ==
  /\ IF Confirmable(l) THEN ok \cup fail \subseteq leases[l].files
                        ELSE ok = leases[l].ok /\ fail = leases[l].fail
  /\ ok \cap fail = {}
  /\ ServerConfirm(l, ok, fail)
  /\ UNCHANGED <<env, agent, disk>>

\* --------------------------------- Pull Agent: _pull_lease (downloader.py)
PULL_LIMIT == 200

\* line 28: the ttl_seconds of every lease request of the agent, in time units
LEASE_TTL_SECONDS == MaxTTL

\* the ids of a set in the service's stable order
RECURSIVE Ordered(_)
Ordered(S) ==
  IF S = {} THEN <<>>
  ELSE LET m == CHOOSE x \in S : \A y \in S : x <= y
       IN <<m>> \o Ordered(S \ {m})

\* limit = limit or PULL_LIMIT
EffLimit(limit) == IF limit = 0 THEN PULL_LIMIT ELSE limit

\* _pull_lease returns or raises: its locals are gone
Return ==
  /\ lease_id' = NoLease
  /\ files' = <<>>
  /\ idx' = 1
  /\ ok_ids' = <<>>
  /\ fail_ids' = <<>>
  /\ gets' = 0
  /\ neterr' = FALSE
  /\ pc' = "end"

\* lines 113-120: POST lease-files is answered; the loop starts
AgentLease(limit, lotes) ==
  /\ pc \in {"idle", "end"}
  /\ ServerLease(EffLimit(limit), lotes, LEASE_TTL_SECONDS)
  /\ lease_id' = NextLeaseId
  /\ files' = Ordered(LeaseSelect(EffLimit(limit), lotes))
  /\ idx' = 1
  /\ ok_ids' = <<>>
  /\ fail_ids' = <<>>
  /\ gets' = 0
  /\ neterr' = FALSE
  /\ confirms' = 0
  /\ result' = "running"
  /\ pc' = IF files' = <<>> THEN "confirm" ELSE "loop"
  /\ UNCHANGED <<env, disk>>

\* lines 113-115: the POST raises (transport error or raise_for_status);
\* `served` tells whether the service had run the lease before the failure
AgentLeaseFail(served, limit, lotes) ==
  /\ pc \in {"idle", "end"}
  /\ IF served THEN ServerLease(EffLimit(limit), lotes, LEASE_TTL_SECONDS)
               ELSE UNCHANGED <<fstate, leases>>
  /\ Return
  /\ confirms' = 0
  /\ result' = "raised"
  /\ UNCHANGED <<env, disk>>

\* (mutant) only an oversized download counts as a size mismatch
SizeMismatch_Over(size, body) == size # 0 /\ Len(body) > size

\* line 133: if size and dest.stat().st_size != int(size): raise
\* (size is f.get("tamanho") or f.get("size"): 0 stands for every falsy value)
SizeMismatch(size, body) == size # 0 /\ Len(body) # size

\* lines 136-139: if VERIFY_SHA256 and sha: got = sha256(dest).lower();
\* if got != sha.lower(): raise     (<<>> stands for every falsy sha)
ShaMismatch(sha, body) ==
  VERIFY_SHA256 /\ sha # <<>> /\ Lower(sha256_file(body)) # Lower(sha)

\* lines 144-146: except: if dest.exists(): dest.unlink()
Unlink(d, dest) == [d EXCEPT ![dest] = None]

\* lines 48-57: a completed download replaces whatever is at dest
Moved(d, dest, body) == [d EXCEPT ![dest] = body]

\* lines 130-141: the try block succeeds
Verified(f, get) ==
  /\ get # NetErr
  /\ ~SizeMismatch(catalog[f].size, get)
  /\ ~ShaMismatch(catalog[f].sha, get)

\* GET requests sent for one descriptor
Attempts == 1

\* lines 121-148: one iteration of the loop over files.  get is NetErr
\* (requests.get / raise_for_status / iter_content raises: nothing is moved
\* to dest) or the body that was streamed and moved to dest.
AgentDownload(get) ==
  /\ pc = "loop"
  /\ LET f    == files[idx]
         dest == Dest(f)
     IN IF wire = "declared"
          \* line 124: f["nome"] raises KeyError outside the try; the
          \* exception leaves _pull_lease (caught in baixar_output, line 241)
          THEN /\ Return
               /\ result' = "raised"
               /\ UNCHANGED disk
          ELSE /\ idx' = idx + 1
               /\ pc' = IF idx = Len(files) THEN "confirm" ELSE "loop"
               /\ gets' = gets + Attempts
               /\ neterr' = (neterr \/ get = NetErr)
               /\ UNCHANGED <<result, lease_id, files>>
               /\ IF Verified(f, get)
                    THEN /\ disk' = Moved(disk, dest, get)
                         /\ ok_ids' = Append(ok_ids, f)
                         /\ UNCHANGED fail_ids
                    ELSE /\ disk' = Unlink(IF get = NetErr THEN disk
                                           ELSE Moved(disk, dest, get), dest)
                         /\ fail_ids' = Append(fail_ids, f)
                         /\ UNCHANGED ok_ids
  /\ UNCHANGED <<env, srv, confirms>>

\* lines 150-162: POST confirm-download.  net is "ok" (answered), "noreply"
\* (the service ran it, the answer was lost) or "lost" (never reached it).
AgentConfirm(net) ==
  /\ pc = "confirm"
  /\ confirms' = confirms + 1
  /\ Return
  /\ IF net = "lost"
       THEN /\ UNCHANGED srv
            /\ result' = "raised"
       ELSE /\ ServerConfirm(lease_id, SeqToSet(ok_ids), SeqToSet(fail_ids))
            /\ result' = IF net = "ok" /\ ConfirmReply(lease_id, SeqToSet(ok_ids),
                                                       SeqToSet(fail_ids)) = "confirmed"
                           THEN "returned" ELSE "raised"
  /\ UNCHANGED <<env, disk>>

\* the agent process dies inside _pull_lease; the disk stays as it is
AgentCrash ==
  /\ pc \in {"loop", "confirm"}
  /\ lease_id' = NoLease
  /\ files' = <<>>
  /\ idx' = 1
  /\ ok_ids' = <<>>
  /\ fail_ids' = <<>>
  /\ gets' = 0
  /\ neterr' = FALSE
  /\ confirms' = 0
  /\ pc' = "idle"
  /\ result' = "crashed"
  /\ UNCHANGED <<env, srv, disk>>

\* ---------------------------------------------------------- specifications
\* what the service declares for file f: the size for every other file only,
\* the digest in lowercase, in uppercase or not at all
DeclaredSize(f) == IF f % 2 = 1 THEN Len(FileBody(f)) ELSE 0
DeclaredSha(f) ==
  IF f % 3 = 1 THEN sha256_file(FileBody(f))
  ELSE IF f % 3 = 2 THEN Upper(sha256_file(FileBody(f)))
  ELSE <<>>

\* where the children live: file 1 at NSA_1/a.txt, file 2 at the same path
\* or at NSA_2/b.txt, the others alternate between NSA_2/a.txt and NSA_1/b.txt
Places == {p \in [Files -> Lotes \X Nomes] :
             \A f \in Files :
               IF f = 1 THEN p[f] = <<"NSA_1", "a.txt">>
               ELSE IF f = 2 THEN p[f] \in {<<"NSA_1", "a.txt">>, <<"NSA_2", "b.txt">>}
               ELSE IF f % 2 = 1 THEN p[f] = <<"NSA_2", "a.txt">>
               ELSE p[f] = <<"NSA_1", "b.txt">>}

Catalog(place) ==
  [f \in Files |->
     [lote |-> place[f][1], nome |-> place[f][2],
      size |-> DeclaredSize(f), sha |-> DeclaredSha(f)]]

\* no mother file is being split
\* no trailer is being built, no upload, no /pull request and no
\* validation has started
NoAux ==
  /\ args = <<>>
  /\ up = [pc |-> "none"]
  /\ rota = [pc |-> "none"]
  /\ integridade = [status |-> "none"]

NoSplit ==
  /\ kind = "none"
  /\ lines = <<>>
  /\ resultado = [status |-> "none"]
  /\ NoAux

\* no transfer has started
PullIdle ==
  /\ fstate = [f \in Files |-> [state |-> "pending", lease_id |-> NoLease]]
  /\ leases = [l \in LeaseIds |->
                 [status |-> "none", files |-> {}, ttl |-> 0, ok |-> {}, fail |-> {}]]
  /\ pc = "idle"
  /\ lease_id = NoLease
  /\ files = <<>>
  /\ idx = 1
  /\ ok_ids = <<>>
  /\ fail_ids = <<>>
  /\ disk = [d \in Dests |-> None]
  /\ gets = 0
  /\ neterr = FALSE
  /\ confirms = 0
  /\ result = "none"

InitState == NoSplit /\ PullIdle

\* the agent against the service, in every deployment
Init ==
  /\ wire \in {"declared", "agent"}
  /\ VERIFY_SHA256 \in BOOLEAN
  /\ \E place \in Places : catalog = Catalog(place)
  /\ InitState

\* limit of a request of the agent: 0 (absent: PULL_LIMIT) or fewer than
\* there are files
Limits == 0..(NumFiles - 1)
LoteFilters == {{}} \cup {{x} : x \in Lotes}
TTLs == 1..MaxTTL

Next ==
  \/ \E limit \in Limits, lotes \in LoteFilters : AgentLease(limit, lotes)
  \/ \E served \in BOOLEAN, limit \in Limits, lotes \in LoteFilters :
       AgentLeaseFail(served, limit, lotes)
  \/ \E get \in Bodies \cup {NetErr} : AgentDownload(get)
  \/ \E net \in {"ok", "noreply", "lost"} : AgentConfirm(net)
  \/ AgentCrash
  \/ Sweep
  \/ Tick

Spec == Init /\ [][Next]_vars

\* the service under any number of agents
ServiceInit ==
  /\ wire = "agent"
  /\ VERIFY_SHA256 = TRUE
  /\ \E place \in Places : catalog = Catalog(place)
  /\ InitState

ServiceNext ==
  \/ \E limit \in 1..NumFiles, lotes \in LoteFilters, ttl \in TTLs : ClientLease(limit, lotes, ttl)
  \/ \E l \in LeaseIds, ok \in SUBSET Files : \E fail \in SUBSET (Files \ ok) :
       ClientConfirm(l, ok, fail)
  \/ Sweep
  \/ Tick
  \/ \E f \in Files : OperatorRetry(f)

ServiceSpec == ServiceInit /\ [][ServiceNext]_vars

\* some agent keeps asking for leases whose filter and limit cover f
LeaseOf(f) ==
  /\ fstate[f].state = "pending"
  /\ \E limit \in 1..NumFiles, lotes \in LoteFilters, ttl \in TTLs : ClientLease(limit, lotes, ttl)
  /\ fstate'[f].state = "leased"

\* time passes, the sweep runs periodically, agents keep polling
Fairness ==
  /\ WF_vars(Tick)
  /\ WF_vars(Sweep)
  /\ \A f \in Files : WF_vars(LeaseOf(f))

\* the service when no operator ever retries a failed file
NoRetryNext ==
  \/ \E limit \in 1..NumFiles, lotes \in LoteFilters, ttl \in TTLs : ClientLease(limit, lotes, ttl)
  \/ \E l \in LeaseIds, ok \in SUBSET Files : \E fail \in SUBSET (Files \ ok) :
       ClientConfirm(l, ok, fail)
  \/ Sweep
  \/ Tick

NoRetrySpec == ServiceInit /\ [][NoRetryNext]_vars /\ Fairness

\* ------------------------------------------------------------------ claims
Active(l) == leases[l].status = "open"
Holds(l, f) == Active(l) /\ f \in leases[l].files
StateOf(f) == fstate[f].state

\* C1: lease safety.  Under every interleaving of lease, confirm and sweep,
\* no file id is held by two active (not expired, not confirmed) leases.
C1_LeaseSafety ==
  \A f \in Files : \A l1, l2 \in LeaseIds :
    Holds(l1, f) /\ Holds(l2, f) => l1 = l2

\* two leases are active at once, each holding a file
C1_Witness ==
  \E l1, l2 \in LeaseIds : \E f, g \in Files :
    l1 # l2 /\ Holds(l1, f) /\ Holds(l2, g)

\* C3: every change of a FileState is pending->leased, leased->downloaded,
\* leased->failed, leased->pending or failed->pending; files start pending;
\* a downloaded file never changes state again.
C3_Allowed ==
  {<<"pending", "leased">>, <<"leased", "downloaded">>, <<"leased", "failed">>,
   <<"leased", "pending">>, <<"failed", "pending">>}

C3_Transitions ==
  /\ \A f \in Files : StateOf(f) = "pending"
  /\ [][\A f \in Files :
          StateOf(f)' # StateOf(f) => <<StateOf(f), StateOf(f)'>> \in C3_Allowed]_vars

\* one file is downloaded while another one, once failed, is pending again
C3_Witness ==
  \E f, g \in Files : \E l \in LeaseIds :
    /\ StateOf(f) = "downloaded"
    /\ StateOf(g) = "pending" /\ g \in leases[l].fail

\* C4: TTL expiry liveness.  A leased file that is not confirmed (neither
\* downloaded nor failed) returns to pending with its lease_id cleared, and
\* a file released by expiry is returned by a later lease (while the service
\* still has a lease id to give).
C4_Released(f) == StateOf(f) = "pending" /\ fstate[f].lease_id = NoLease
C4_Expired(f) == C4_Released(f) /\ \E l \in LeaseIds : leases[l].status = "expired"

C4_ExpiryLiveness ==
  /\ \A f \in Files :
       (StateOf(f) = "leased") ~> (C4_Released(f) \/ StateOf(f) \in {"downloaded", "failed"})
  /\ \A f \in Files :
       C4_Expired(f) ~> (StateOf(f) = "leased" \/ FreeLeases = {})

\* the first lease (which took a file, every lote having one) expired
\* unconfirmed, and a later lease holds every file
C4_Witness ==
  \E l2 \in LeaseIds :
    /\ leases[1].status = "expired"
    /\ \A x \in Lotes : \E g \in Files : catalog[g].lote = x
    /\ l2 # 1 /\ \A g \in Files : Belongs(g, l2) /\ g \in leases[l2].files

C7_ConfirmAlways ==
  [][(wire = "declared" /\ lease_id # NoLease /\ pc' = "end") => confirms' = 1]_vars

\* the checks of C2 and C8: the byte count equals the declared size (0: none
\* given); the digest equals the declared digest (<<>>: none given), compared
\* as the descriptor gives it (exact) or with both sides in lowercase
C8_SizeOk(f, body) == catalog[f].size # 0 => Len(body) = catalog[f].size
C8_ShaExact(f, body) ==
  (VERIFY_SHA256 /\ catalog[f].sha # <<>>)
     => Lower(sha256_file(body)) = catalog[f].sha
C8_ShaOk(f, body) ==
  (VERIFY_SHA256 /\ catalog[f].sha # <<>>)
     => Lower(sha256_file(body)) = Lower(catalog[f].sha)

\* C8 as claimed: an id goes to ok_ids only if the downloaded byte count
\* equals the declared size (when one is given) and the lowercased digest of
\* the file equals the descriptor digest (when one is given and verification
\* is on); on any mismatch the file is deleted and the id goes to fail_ids.
C8_OkOnlyExact ==
  [][(pc = "loop" /\ wire = "agent" /\ idx' = idx + 1) =>
       LET f == files[idx]
           d == Dest(f)
       IN \/ /\ ok_ids' = Append(ok_ids, f) /\ fail_ids' = fail_ids
             /\ disk'[d] # None
             /\ C8_SizeOk(f, disk'[d]) /\ C8_ShaExact(f, disk'[d])
          \/ /\ fail_ids' = Append(fail_ids, f) /\ ok_ids' = ok_ids
             /\ disk'[d] = None]_vars

\* C8 as amended: the same, the digest of the file and the descriptor digest
\* being compared with both sides in lowercase.
C8_OkOnlyVerified ==
  [][(pc = "loop" /\ wire = "agent" /\ idx' = idx + 1) =>
       LET f == files[idx]
           d == Dest(f)
       IN \/ /\ ok_ids' = Append(ok_ids, f) /\ fail_ids' = fail_ids
             /\ disk'[d] # None
             /\ C8_SizeOk(f, disk'[d]) /\ C8_ShaOk(f, disk'[d])
          \/ /\ fail_ids' = Append(fail_ids, f) /\ ok_ids' = ok_ids
             /\ disk'[d] = None]_vars

\* in one cycle, with verification on, an id whose descriptor digest is in
\* uppercase was accepted and another id was refused on a mismatch
C8_Witness ==
  /\ VERIFY_SHA256 /\ ~neterr /\ Len(fail_ids) > 0
  /\ \E i \in 1..Len(ok_ids) :
       /\ catalog[ok_ids[i]].sha # Lower(catalog[ok_ids[i]].sha)
       /\ disk[Dest(ok_ids[i])] # None

\* C9: when confirm is sent, every id in ok_ids has its file at its
\* destination and every id in fail_ids has none.
C9_DiskMatchesLists ==
  pc = "confirm" =>
    /\ \A i \in 1..Len(ok_ids) : disk[Dest(ok_ids[i])] # None
    /\ \A i \in 1..Len(fail_ids) : disk[Dest(fail_ids[i])] = None

\* C2: no silent loss.  When no cycle is running, a file in state
\* downloaded has at its destination a copy that passes the size and
\* digest checks.
C2_NoSilentLoss ==
  pc \in {"idle", "end"} =>
    \A f \in Files : StateOf(f) = "downloaded" =>
      /\ disk[Dest(f)] # None
      /\ C8_SizeOk(f, disk[Dest(f)]) /\ C8_ShaOk(f, disk[Dest(f)])

\* C10: after a network error the agent retries the descriptor (3 attempts
\* by default) before it gives up: a cycle with a failed GET has sent more
\* GETs than it has handled descriptors.
C10_Retries ==
  neterr => gets > Len(ok_ids) + Len(fail_ids)

\* ================================================================ split engine
\* ------------------------------------------------------- text (Python str)
\* A text is a sequence of one-character strings.
Digits == <<"0", "1", "2", "3", "4", "5", "6", "7", "8", "9">>
Letters ==
  {"A", "B", "C", "D", "E", "F", "G", "H", "I", "J", "K", "L", "M", "N", "O",
   "P", "Q", "R", "S", "T", "U", "V", "W", "X", "Y", "Z",
   "a", "b", "c", "d", "e", "f", "g", "h", "i", "j", "k", "l", "m", "n", "o",
   "p", "q", "r", "s", "t", "u", "v", "w", "x", "y", "z"}
IsDigit(c) == \E i \in 1..10 : Digits[i] = c
DigitVal(c) == (CHOOSE i \in 1..10 : Digits[i] = c) - 1

\* str.isdigit(): not empty, digits only
isdigit(s) == Len(s) > 0 /\ \A i \in 1..Len(s) : IsDigit(s[i])

\* int(s) of a text of digits
RECURSIVE int(_)
int(s) ==
  IF Len(s) = 0 THEN 0
  ELSE int(SubSeq(s, 1, Len(s) - 1)) * 10 + DigitVal(s[Len(s)])

\* str(n) of a natural number
RECURSIVE str(_)
str(n) == IF n < 10 THEN <<Digits[n + 1]>> ELSE str(n \div 10) \o <<Digits[(n % 10) + 1]>>

Rep(c, n) == [i \in 1..n |-> c]

\* s.zfill(w), and f"{s:0>{w}}": the same for texts without a sign
zfill(s, w) == IF Len(s) >= w THEN s ELSE Rep("0", w - Len(s)) \o s

\* s.ljust(w)
ljust(s, w) == IF Len(s) >= w THEN s ELSE s \o Rep(" ", w - Len(s))

\* s[a:b] with 0 <= a <= b
Slice(s, a, b) == SubSeq(s, a + 1, IF b < Len(s) THEN b ELSE Len(s))

\* s.strip()
RECURSIVE lstrip(_)
lstrip(s) == IF Len(s) > 0 /\ s[1] = " " THEN lstrip(Tail(s)) ELSE s
RECURSIVE rstrip(_)
rstrip(s) == IF Len(s) > 0 /\ s[Len(s)] = " " THEN rstrip(SubSeq(s, 1, Len(s) - 1)) ELSE s
strip(s) == rstrip(lstrip(s))

\* s.startswith(t)
startswith(s, t) == Len(s) >= Len(t) /\ SubSeq(s, 1, Len(t)) = t

\* re.search(r"\d{n}", s): index (from 1) of the leftmost run of n digits, 0 if none
DigitRun(s, n) ==
  LET hits == {i \in 1..(Len(s) - n + 1) : \A j \in i..(i + n - 1) : IsDigit(s[j])}
  IN IF hits = {} THEN 0 ELSE CHOOSE i \in hits : \A k \in hits : i <= k

\* "x".join(parts)
RECURSIVE join(_, _)
join(sep, parts) ==
  IF Len(parts) = 0 THEN <<>>
  ELSE IF Len(parts) = 1 THEN parts[1]
  ELSE parts[1] \o sep \o join(sep, Tail(parts))

\* ---------------------------------------------- utils/validation_utils.py
\* to_centavos: digits of the text, "." and "," dropped; 0 when not a number
to_centavos(valor_str) ==
  LET t == strip(valor_str)
      u == SelectSeq(t, LAMBDA c : c # "." /\ c # ",")
  IN IF Len(valor_str) = 0 THEN 0 ELSE IF isdigit(u) THEN int(u) ELSE 0

\* format_reais: reais and centavos of an amount in centavos
format_reais(valor_centavos) == <<valor_centavos \div 100, valor_centavos % 100>>

\* (mutant) the difference is taken the other way round
validar_totais_Swap(total_trailer, total_processado) ==
  IF total_trailer = total_processado
    THEN [ok |-> TRUE, valor |-> format_reais(0), direcao |-> ""]
    ELSE LET diff == total_trailer - total_processado
         IN [ok |-> FALSE,
             valor |-> format_reais(IF diff < 0 THEN 0 - diff ELSE diff),
             direcao |-> IF diff > 0 THEN "a maior" ELSE "a menor"]

\* validar_totais: the text of the verdict, as its parts
validar_totais(total_trailer, total_processado) ==
  IF total_trailer = total_processado
    THEN [ok |-> TRUE, valor |-> format_reais(0), direcao |-> ""]
    ELSE LET diff == total_processado - total_trailer
         IN [ok |-> FALSE,
             valor |-> format_reais(IF diff < 0 THEN 0 - diff ELSE diff),
             direcao |-> IF diff > 0 THEN "a maior" ELSE "a menor"]

\* --------------------------------------------------- utils/file_utils.py
\* INVALID_FN_CHARS = [^A-Za-z0-9._-]
ValidFnChar(c) == IsDigit(c) \/ c \in Letters \/ c \in {".", "_", "-"}

\* re.sub(r'_+', '_', s)
RECURSIVE Squeeze(_)
Squeeze(s) ==
  IF Len(s) < 2 THEN s
  ELSE IF s[1] = "_" /\ s[2] = "_" THEN Squeeze(Tail(s))
  ELSE <<s[1]>> \o Squeeze(Tail(s))

sanitize_filename(name) ==
  LET t == strip(name)
  IN Squeeze([i \in 1..Len(t) |-> IF ValidFnChar(t[i]) THEN t[i] ELSE "_"])

\* ensure_outfile: os.path.join(path_dir, sanitize_filename(filename))
ensure_outfile(path_dir, filename) == <<path_dir, sanitize_filename(filename)>>

\* the directories of a run
OutputDir == <<"o", "u", "t", "p", "u", "t">>

\* a processor that raised: nothing was written
Raised ==
  [status |-> "raised", ok |-> FALSE, data_ref |-> <<>>, nsa |-> <<>>,
   trailer |-> <<>>, processado |-> <<>>, verdicts |-> <<>>, detalhe |-> <<>>,
   written |-> <<>>]

\* the files on disk after the writes of a run, in order: path -> lines
Paths(written) == {written[i].path : i \in 1..Len(written)}
LastWrite(written, path) ==
  CHOOSE i \in 1..Len(written) :
    /\ written[i].path = path
    /\ \A j \in 1..Len(written) : written[j].path = path => j <= i
Children(written) == [path \in Paths(written) |-> written[LastWrite(written, path)]]

\* ------------------------------------- modules/eevc_processor.py (EEVC)
\* _extract_data_nsa(header_line, filename); the name of the mother file
\* has no digits, so the fallback by name finds nothing
extract_data_nsa(header_line) ==
  LET raw == Slice(header_line, 3, 11)
      at  == DigitRun(header_line, 15)
  IN [data_ref |-> IF startswith(header_line, <<"0", "0", "2">>) /\ Len(header_line) >= 11
                      /\ isdigit(raw)
                     THEN Slice(raw, 0, 2) \o Slice(raw, 2, 4) \o Slice(raw, 6, 8)
                     ELSE Rep("0", 6),
      nsa |-> IF at # 0 THEN SubSeq(header_line, at + 3, at + 5) ELSE Rep("0", 3)]

\* (mutant) the PV is written without the padding, over the sequence
rewrite_header_with_pv_Seq(header_line, pv) ==
  LET at == DigitRun(header_line, 15)
  IN IF at = 0 THEN header_line
     ELSE SubSeq(header_line, 1, at - 1) \o zfill(pv, 15)
          \o SubSeq(header_line, at + 15, Len(header_line))

\* _rewrite_header_with_pv: re.subn(r"(\d{6})\d{9}", nsa6 + pv9, count=1)
rewrite_header_with_pv(header_line, pv) ==
  LET at == DigitRun(header_line, 15)
  IN IF at = 0 THEN header_line
     ELSE SubSeq(header_line, 1, at + 5) \o zfill(pv, 9)
          \o SubSeq(header_line, at + 15, Len(header_line))

\* _liquido_rv
liquido_rv(line) == IF Len(line) >= 129 THEN to_centavos(Slice(line, 114, 129)) ELSE 0

\* _build_trailer_026
num15(n) == zfill(str(IF n < 0 THEN 0 ELSE n), 15)
build_trailer_026(pv, total_liquido_cent) ==
  <<"0", "2", "6">> \o zfill(pv, 9)
  \o Rep("0", 15) \o Rep("0", 6) \o Rep("0", 15) \o Rep("0", 15) \o Rep("0", 15)
  \o Rep("0", 15) \o Rep("0", 15) \o Rep("0", 15)
  \o num15(total_liquido_cent)
  \o Rep("0", 15) \o Rep("0", 15) \o Rep("0", 6)

\* grupos[pv].append(line); totais_pv[pv]["liquido_rv"] += tot
\* (both dicts are kept as one list of groups, in order of first insertion)
GroupIndex(grupos, pv) ==
  IF \E i \in 1..Len(grupos) : grupos[i].pv = pv
    THEN CHOOSE i \in 1..Len(grupos) : grupos[i].pv = pv
    ELSE 0
GroupAdd(grupos, pv, line, tot) ==
  LET i == GroupIndex(grupos, pv)
  IN IF i = 0
       THEN Append(grupos, [pv |-> pv, blocos |-> <<line>>, liquido_rv |-> tot])
       ELSE [grupos EXCEPT ![i].blocos = Append(@, line), ![i].liquido_rv = @ + tot]

\* (mutant) the sale receipts 008 are added as if they were RVs
RV_TYPES_CV ==
  {<<"0", "0", "6">>, <<"0", "1", "0">>, <<"0", "1", "6">>, <<"0", "2", "2">>,
   <<"0", "0", "8">>}

RV_TYPES == {<<"0", "0", "6">>, <<"0", "1", "0">>, <<"0", "1", "6">>, <<"0", "2", "2">>}
CV_TYPES == {<<"0", "0", "8">>, <<"0", "1", "2">>, <<"0", "1", "8">>, <<"0", "1", "4">>,
             <<"0", "2", "4">>}

\* (mutant) a 026 leaves the block of its PV open
eevc_line_Open(st, line) ==
  LET tipo   == Slice(line, 0, 3)
      inside == st.current_pv # None /\ st.current_pv # <<>>
  IN IF tipo = <<"0", "0", "2">> THEN [st EXCEPT !.header_line = line]
     ELSE IF tipo = <<"0", "0", "4">>
       THEN LET pv == strip(Slice(line, 3, 12))
            IN [st EXCEPT !.current_pv = pv, !.grupos = GroupAdd(@, pv, line, 0)]
     ELSE IF tipo \in RV_TYPES
       THEN IF inside
              THEN [st EXCEPT !.grupos = GroupAdd(@, st.current_pv, line, liquido_rv(line))]
              ELSE st
     ELSE IF tipo = <<"0", "2", "6">> THEN st
     ELSE IF tipo = <<"0", "2", "8">> THEN [st EXCEPT !.trailer_line = line]
     ELSE IF inside
            THEN [st EXCEPT !.grupos = GroupAdd(@, st.current_pv, line, 0)]
            ELSE st

\* lines 160-195: one iteration of the loop over the lines
eevc_line(st, line) ==
  LET tipo   == Slice(line, 0, 3)
      inside == st.current_pv # None /\ st.current_pv # <<>>
  IN IF tipo = <<"0", "0", "2">> THEN [st EXCEPT !.header_line = line]
     ELSE IF tipo = <<"0", "0", "4">>
       THEN LET pv == strip(Slice(line, 3, 12))
            IN [st EXCEPT !.current_pv = pv, !.grupos = GroupAdd(@, pv, line, 0)]
     ELSE IF tipo \in RV_TYPES
       THEN IF inside
              THEN [st EXCEPT !.grupos = GroupAdd(@, st.current_pv, line, liquido_rv(line))]
              ELSE st
     ELSE IF tipo = <<"0", "2", "6">> THEN [st EXCEPT !.current_pv = None]
     ELSE IF tipo = <<"0", "2", "8">> THEN [st EXCEPT !.trailer_line = line]
     ELSE \* 008/012/018/014/024 and every other record inside a PV block
          IF inside
            THEN [st EXCEPT !.grupos = GroupAdd(@, st.current_pv, line, 0)]
            ELSE st

RECURSIVE eevc_loop(_, _)
eevc_loop(ls, n) ==
  IF n = 0
    THEN [header_line |-> None, trailer_line |-> None, grupos |-> <<>>, current_pv |-> None]
    ELSE eevc_line(eevc_loop(ls, n - 1), ls[n])

\* lines 207-227: the child of one group
eevc_child(g, header_line, trailer_line, dn) ==
  [path |-> ensure_outfile(OutputDir,
              g.pv \o <<"_">> \o dn.data_ref \o <<"_">> \o dn.nsa
                   \o <<"_", "E", "E", "V", "C", ".", "t", "x", "t">>),
   pv |-> g.pv,
   linhas |-> <<rewrite_header_with_pv(header_line, g.pv)>>
              \o SelectSeq(g.blocos, LAMBDA l : ~startswith(l, <<"0", "2", "6">>))
              \o <<build_trailer_026(g.pv, g.liquido_rv), trailer_line>>]

RECURSIVE SumLiquido(_)
SumLiquido(grupos) ==
  IF Len(grupos) = 0 THEN 0
  ELSE grupos[1].liquido_rv + SumLiquido(Tail(grupos))

process_eevc(ls) ==
  LET st == eevc_loop(ls, Len(ls))
  IN IF Len(ls) = 0 \/ st.header_line = None \/ st.trailer_line = None
       THEN Raised
       ELSE LET dn == extract_data_nsa(st.header_line)
                total_trailer_str ==
                  IF Len(st.trailer_line) >= 148
                    THEN strip(Slice(st.trailer_line, 133, 148)) ELSE <<"0">>
                total_trailer ==
                  IF isdigit(total_trailer_str) THEN int(total_trailer_str) ELSE 0
                soma == SumLiquido(st.grupos)
            IN [status |-> IF total_trailer = soma THEN "OK" ELSE "ERRO",
                ok |-> total_trailer = soma,
                data_ref |-> dn.data_ref, nsa |-> dn.nsa,
                trailer |-> <<total_trailer>>, processado |-> <<soma>>,
                verdicts |-> <<validar_totais(total_trailer, soma)>>,
                detalhe |-> <<validar_totais(total_trailer, soma)>>,
                written |-> [i \in 1..Len(st.grupos) |->
                               eevc_child(st.grupos[i], st.header_line,
                                          st.trailer_line, dn)]]

\* ------------------------------------- modules/eevd_processor.py (EEVD)
\* line.split(",")
RECURSIVE split(_)
split(line) ==
  IF \E i \in 1..Len(line) : line[i] = ","
    THEN LET i == CHOOSE k \in 1..Len(line) :
                    line[k] = "," /\ \A j \in 1..(k - 1) : line[j] # ","
         IN <<SubSeq(line, 1, i - 1)>> \o split(SubSeq(line, i + 1, Len(line)))
    ELSE <<line>>

\* [p.strip() for p in line.split(",")]
Parts(line) == LET f == split(line) IN [i \in 1..Len(f) |-> strip(f[i])]

\* parts[k] if len(parts) > k else dflt
Field(parts, k, dflt) == IF Len(parts) > k THEN parts[k + 1] ELSE dflt

pad(n, width) == zfill(str(n), width)
val(n) == zfill(str(IF n < 0 THEN 0 - n ELSE n), 15)

\* _extrair_data_nsa(header_parts, nome_arquivo); the name of the mother
\* file has no digits, so the fallbacks by name find nothing
extrair_data_nsa(header_parts) ==
  LET campo_data_mov == strip(Field(header_parts, 2, <<>>))
      campo_nsa      == strip(Field(header_parts, 7, <<>>))
  IN [data_ref |-> IF Len(header_parts) > 3 /\ isdigit(campo_data_mov)
                      /\ Len(campo_data_mov) = 8
                     THEN Slice(campo_data_mov, 0, 2) \o Slice(campo_data_mov, 2, 4)
                          \o Slice(campo_data_mov, 6, 8)
                     ELSE Rep("0", 6),
      nsa |-> IF Len(header_parts) > 7 /\ isdigit(campo_nsa)
                THEN zfill(SubSeq(campo_nsa,
                                  IF Len(campo_nsa) > 3 THEN Len(campo_nsa) - 2 ELSE 1,
                                  Len(campo_nsa)), 3)
                ELSE Rep("0", 3)]

T01  == <<"0", "1">>
T011 == <<"0", "1", "1">>
T04  == <<"0", "4">>
T20  == <<"2", "0">>
CV_DETALHADOS == {<<"0", "5">>, <<"1", "3">>}
TIPOS_MOVIMENTO ==
  {T01, T011, <<"0", "5">>, <<"1", "3">>, T20, <<"0", "8">>, <<"0", "9">>,
   <<"1", "1">>, <<"1", "7">>, <<"1", "8">>, <<"1", "9">>}

\* stats_pv default and registros_por_pv, kept as one list of buckets in
\* order of first insertion
NewBucket(pv) ==
  [pv |-> pv, regs |-> <<>>, qtd_rv |-> 0, qtd_cv |-> 0,
   bruto |-> 0, desconto |-> 0, liquido |-> 0,
   bruto_pred |-> 0, desc_pred |-> 0, liq_pred |-> 0]

BucketIndex(buckets, pv) ==
  IF \E i \in 1..Len(buckets) : buckets[i].pv = pv
    THEN CHOOSE i \in 1..Len(buckets) : buckets[i].pv = pv
    ELSE 0

\* the bucket of pv, created when absent
Touch(buckets, pv) ==
  IF BucketIndex(buckets, pv) = 0 THEN Append(buckets, NewBucket(pv)) ELSE buckets

\* (mutant) the amount of a routed record is added to the bruto of its PV
Route_Sum(buckets, pv, parts, cv) ==
  LET b == Touch(buckets, pv)
      i == BucketIndex(b, pv)
  IN [b EXCEPT ![i].regs = Append(@, parts), ![i].qtd_cv = @ + cv,
               ![i].bruto = @ + (IF Len(parts) > 6 THEN to_centavos(parts[7]) ELSE 0)]

\* registros_por_pv[pv].append(parts); stats_pv[pv]["qtd_cv"] += cv
Route(buckets, pv, parts, cv) ==
  LET b == Touch(buckets, pv)
      i == BucketIndex(b, pv)
  IN [b EXCEPT ![i].regs = Append(@, parts), ![i].qtd_cv = @ + cv]

\* lines 143-165: a record 01
eevd_01(st, parts) ==
  LET pv       == Field(parts, 1, None)
      qtd_cv   == IF Len(parts) > 5 /\ isdigit(parts[6]) THEN int(parts[6]) ELSE 0
      bruto    == IF Len(parts) > 6 THEN to_centavos(parts[7]) ELSE 0
      desconto == IF Len(parts) > 7 THEN to_centavos(parts[8]) ELSE 0
      liquido  == IF Len(parts) > 8 THEN to_centavos(parts[9]) ELSE 0
      tipo     == Field(parts, 9, <<>>)
      pred     == tipo \in {<<"P">>, <<"p">>}
      rv_to_pv == IF Len(parts) > 4
                    THEN [r \in DOMAIN st.rv_to_pv \cup {parts[5]} |->
                            IF r = parts[5] THEN pv ELSE st.rv_to_pv[r]]
                    ELSE st.rv_to_pv
      b        == Touch(st.buckets, pv)
      i        == BucketIndex(b, pv)
  IN IF pv # None /\ pv # <<>>
       THEN [st EXCEPT !.rv_to_pv = rv_to_pv,
                       !.buckets =
                         [b EXCEPT ![i].regs = Append(@, parts),
                                   ![i].qtd_rv = @ + 1,
                                   ![i].qtd_cv = @ + qtd_cv,
                                   ![i].bruto = @ + bruto,
                                   ![i].desconto = @ + desconto,
                                   ![i].liquido = @ + liquido,
                                   ![i].bruto_pred = IF pred THEN @ + bruto ELSE @,
                                   ![i].desc_pred = IF pred THEN @ + desconto ELSE @,
                                   ![i].liq_pred = IF pred THEN @ + liquido ELSE @]]
       ELSE [st EXCEPT !.rv_to_pv = rv_to_pv]

\* (mutant) a 20 whose RV is unknown goes to the first bucket, however many
\* buckets exist
eevd_20_First(st, parts) ==
  LET rv == IF Len(parts) > 3 THEN parts[4] ELSE Field(parts, 2, None)
  IN IF rv # None /\ rv # <<>> /\ rv \in DOMAIN st.rv_to_pv
       THEN [st EXCEPT !.buckets = Route(@, st.rv_to_pv[rv], parts, 1)]
     ELSE IF Len(st.buckets) >= 1
       THEN [st EXCEPT !.buckets = Route(@, st.buckets[1].pv, parts, 1)]
     ELSE st

\* lines 184-194: a record 20, routed by the RV of an earlier 01
eevd_20(st, parts) ==
  LET rv == IF Len(parts) > 3 THEN parts[4] ELSE Field(parts, 2, None)
  IN IF rv # None /\ rv # <<>> /\ rv \in DOMAIN st.rv_to_pv
       THEN [st EXCEPT !.buckets = Route(@, st.rv_to_pv[rv], parts, 1)]
     ELSE IF Len(st.buckets) = 1
       THEN [st EXCEPT !.buckets = Route(@, st.buckets[1].pv, parts, 1)]
     ELSE st

\* (mutant) the records 012 and 013 are routed by their field 1
AjustePV_012(t, parts) ==
  IF t \in {<<"0", "8">>, <<"0", "9">>, <<"0", "1", "2">>, <<"0", "1", "3">>}
    THEN Field(parts, 1, None)
  ELSE IF t \in {<<"1", "1">>, <<"1", "8">>, <<"1", "9">>} THEN Field(parts, 2, None)
  ELSE IF t = <<"1", "7">> THEN Field(parts, 5, None)
  ELSE None

\* lines 197-208: where the adjustment and information records carry the PV
AjustePV(t, parts) ==
  IF t \in {<<"0", "8">>, <<"0", "9">>} THEN Field(parts, 1, None)
  ELSE IF t \in {<<"1", "1">>, <<"1", "8">>, <<"1", "9">>} THEN Field(parts, 2, None)
  ELSE IF t = <<"1", "7">> THEN Field(parts, 5, None)
  ELSE None

\* lines 134-211: one iteration of the loop over the detail lines
eevd_line(st, raw) ==
  LET parts == Parts(raw)
      t     == parts[1]
      pv1   == Field(parts, 1, None)
      st1   == [st EXCEPT !.tem_movimento = @ \/ t \in TIPOS_MOVIMENTO]
  IN IF t = T01 THEN eevd_01(st1, parts)
     ELSE IF t = T011 \/ t \in CV_DETALHADOS
       THEN IF pv1 # None /\ pv1 # <<>>
              THEN [st1 EXCEPT !.buckets = Route(@, pv1, parts, 1)]
              ELSE st1
     ELSE IF t = T20 THEN eevd_20(st1, parts)
     ELSE LET pv == AjustePV(t, parts)
          IN IF pv # None /\ pv # <<>>
               THEN [st1 EXCEPT !.buckets = Route(@, pv, parts, 0)]
               ELSE st1

RECURSIVE eevd_loop(_, _)
eevd_loop(detalhes, n) ==
  IF n = 0
    THEN [buckets |-> <<>>, rv_to_pv |-> <<>>, tem_movimento |-> FALSE]
    ELSE eevd_line(eevd_loop(detalhes, n - 1), detalhes[n])

\* line 112: the index (from 0) of the mother trailer; -1 when max() raises
Has04(l) == Slice(l, 0, 2) = T04 \/ Slice(l, 1, 3) = T04
last_04_idx(ls) ==
  LET is04 == {i \in 1..Len(ls) : split(ls[i])[1] = T04}
  IN IF \E i \in 1..Len(ls) : Has04(ls[i])
       THEN IF is04 = {} THEN 0 - 1
            ELSE (CHOOSE i \in is04 : \A j \in is04 : j <= i) - 1
       ELSE Len(ls) - 1

\* lines 273-323: the child of one bucket
eevd_child(b, header_parts, lote_dir, dn) ==
  LET trailer_id == Field(header_parts, 1, <<"0">>)
      header_pv  == [header_parts EXCEPT ![2] = b.pv]
      linhas_out == <<join(<<",">>, header_pv)>>
                    \o [i \in 1..Len(b.regs) |-> join(<<",">>, b.regs[i])]
      totals     == <<val(b.bruto), val(b.desconto), val(b.liquido),
                      val(b.bruto_pred), val(b.desc_pred), val(b.liq_pred)>>
      reg02 == <<<<"0", "2">>, trailer_id, pad(b.qtd_rv, 3), pad(b.qtd_cv, 6)>> \o totals
      reg03 == <<<<"0", "3">>, trailer_id, pad(b.qtd_rv, 3), pad(b.qtd_cv, 6)>> \o totals
      reg04 == <<T04, trailer_id, pad(b.qtd_rv, 6), pad(b.qtd_cv, 6)>> \o totals
               \o <<pad(Len(linhas_out) + 3, 6)>>
  IN [path |-> ensure_outfile(lote_dir,
                 b.pv \o <<"_">> \o dn.data_ref \o <<"_">> \o dn.nsa
                      \o <<"_", "E", "E", "V", "D", ".", "t", "x", "t">>),
      pv |-> b.pv,
      linhas |-> linhas_out \o <<join(<<",">>, reg02), join(<<",">>, reg03),
                                 join(<<",">>, reg04)>>]

\* lines 219-244: the file written for a mother without movement
eevd_sem_mov(header_parts, lote_dir, dn) ==
  [path |-> ensure_outfile(lote_dir,
              <<"S", "E", "M", "_", "M", "O", "V", "_">> \o dn.data_ref \o <<"_">> \o dn.nsa
                   \o <<"_", "E", "E", "V", "D", ".", "t", "x", "t">>),
   pv |-> None,
   linhas |-> <<join(<<",">>, header_parts),
                join(<<",">>, <<T04, Field(header_parts, 1, <<"0">>), pad(0, 6), pad(0, 6),
                                Rep("0", 15), Rep("0", 15), Rep("0", 15),
                                Rep("0", 15), Rep("0", 15), Rep("0", 15), pad(2, 6)>>)>>]

RECURSIVE SumField(_, _)
SumField(buckets, dim) ==
  IF Len(buckets) = 0 THEN 0
  ELSE buckets[1][dim] + SumField(Tail(buckets), dim)

\* _format_detalhe_validacao: per dimension "OK", or "Divergente" with the
\* amount of the difference (the direction is not kept)
format_detalhe_validacao(dets) ==
  [i \in 1..Len(dets) |->
     IF dets[i].ok THEN [ok |-> TRUE, valor |-> format_reais(0)]
     ELSE [ok |-> FALSE, valor |-> dets[i].valor]]

\* a mother header has the PV field: header_pv[1] = pv finds its index
process_eevd(lns) ==
  LET ls == SelectSeq([i \in 1..Len(lns) |-> strip(lns[i])], LAMBDA l : Len(l) > 0)
      last == last_04_idx(ls)
  IN IF Len(ls) < 2 \/ last < 0 THEN Raised
     ELSE
       LET header_parts  == Parts(ls[1])
           trailer_parts == Parts(ls[last + 1])
           detalhes      == SubSeq(ls, 2, last)
           dn            == extrair_data_nsa(header_parts)
           lote_dir      == OutputDir \o <<"/", "N", "S", "A", "_">> \o dn.nsa
           st            == eevd_loop(detalhes, Len(detalhes))
           trailer == <<to_centavos(Field(trailer_parts, 4, <<"0">>)),
                        to_centavos(Field(trailer_parts, 5, <<"0">>)),
                        to_centavos(Field(trailer_parts, 6, <<"0">>))>>
           soma == <<SumField(st.buckets, "bruto"), SumField(st.buckets, "desconto"),
                     SumField(st.buckets, "liquido")>>
           dets == [i \in 1..3 |-> validar_totais(trailer[i], soma[i])]
           matriz_ou_grupo == Field(header_parts, 1, <<"0">>)
           \* lines 274-280: buckets that get a child
           emitted == SelectSeq(st.buckets,
                        LAMBDA b : /\ Len(b.regs) > 0
                                   /\ (b.pv = matriz_ou_grupo =>
                                         \E i \in 1..Len(b.regs) :
                                           b.regs[i][1] \in TIPOS_MOVIMENTO))
       IN IF ~st.tem_movimento
            THEN [status |-> "OK", ok |-> TRUE, data_ref |-> dn.data_ref, nsa |-> dn.nsa,
                  trailer |-> <<0>>, processado |-> <<0>>,
                  verdicts |-> <<>>, detalhe |-> <<>>,
                  written |-> <<eevd_sem_mov(header_parts, lote_dir, dn)>>]
            ELSE [status |-> IF trailer = soma THEN "OK" ELSE "ERRO",
                  ok |-> trailer = soma,
                  data_ref |-> dn.data_ref, nsa |-> dn.nsa,
                  trailer |-> trailer, processado |-> soma,
                  verdicts |-> dets,
                  detalhe |-> format_detalhe_validacao(dets),
                  written |-> [i \in 1..Len(emitted) |->
                                 eevd_child(emitted[i], header_parts, lote_dir, dn)]]

\* ------------------------------------- modules/eefi_processor.py (EEFI)
T030 == <<"0", "3", "0">>
T032 == <<"0", "3", "2">>
T034 == <<"0", "3", "4">>
T035 == <<"0", "3", "5">>
T036 == <<"0", "3", "6">>
T038 == <<"0", "3", "8">>
T040 == <<"0", "4", "0">>
T043 == <<"0", "4", "3">>
T045 == <<"0", "4", "5">>
T052 == <<"0", "5", "2">>

\* LAYOUT_POS[tipo]["valor"], as <<start, end>>
LAYOUT_VALOR(tipo) ==
  IF tipo \in {T034, T036, T038} THEN <<31, 46>>
  ELSE IF tipo = T043 THEN <<48, 63>>
  ELSE IF tipo = T035 THEN <<29, 44>>
  ELSE <<12, 27>>    \* 040, 045

\* _to_int_cents: the digits of the text, 0 when there is none
to_int_cents(num_txt) == int(SelectSeq(num_txt, IsDigit))

\* _write_fixed
write_fixed(line, start, end, value) ==
  Slice(line, 0, start) \o ljust(Slice(value, 0, end - start), end - start)
  \o Slice(line, end, Len(line))

\* a range holds a PV: nine digits once stripped
PvAt(line, rng) ==
  LET seg == strip(Slice(line, rng[1], rng[2]))
  IN IF isdigit(seg) /\ Len(seg) = 9 THEN seg ELSE None

\* the first range of a list that holds a PV
RECURSIVE FirstPv(_, _)
FirstPv(line, rngs) ==
  IF Len(rngs) = 0 THEN None
  ELSE IF PvAt(line, rngs[1]) # None THEN PvAt(line, rngs[1])
  ELSE FirstPv(line, Tail(rngs))

\* (mutant) the PV is looked for after the declared range first
extract_pv_Alt(line, tipo) ==
  LET found == FirstPv(line, <<<<13, 22>>, <<22, 31>>, <<31, 40>>, <<3, 12>>>>)
      at    == DigitRun(Slice(line, 0, 60), 9)
  IN IF found # None THEN found
     ELSE IF at # 0 THEN SubSeq(line, at, at + 8)
     ELSE None

\* _extract_pv(line, tipo)
extract_pv(line, tipo) ==
  LET alt_ranges ==
        IF tipo = T045 THEN <<<<12, 21>>, <<13, 22>>, <<22, 31>>, <<3, 12>>>>
        ELSE IF tipo \in {T034, T035, T036, T038, T043, T040}
          THEN <<<<13, 22>>, <<22, 31>>>>
        ELSE <<>>
      found == FirstPv(line, <<<<3, 12>>>> \o alt_ranges)
      at    == DigitRun(Slice(line, 0, 60), 9)
  IN IF found # None THEN found
     ELSE IF at # 0 THEN SubSeq(line, at, at + 8)
     ELSE None

EEFI_DETALHE == {T040, T045, T034, T035, T036, T038, T043}

\* (mutant) a record is put in front of the records of its PV
MapAdd_Front(pv_map, pv, ln) ==
  IF \E i \in 1..Len(pv_map) : pv_map[i].pv = pv
    THEN LET i == CHOOSE k \in 1..Len(pv_map) : pv_map[k].pv = pv
         IN [pv_map EXCEPT ![i].registros = <<ln>> \o @]
    ELSE Append(pv_map, [pv |-> pv, registros |-> <<ln>>])

\* pv_map.setdefault(pv, []).append(ln), in order of first insertion
MapAdd(pv_map, pv, ln) ==
  IF \E i \in 1..Len(pv_map) : pv_map[i].pv = pv
    THEN LET i == CHOOSE k \in 1..Len(pv_map) : pv_map[k].pv = pv
         IN [pv_map EXCEPT ![i].registros = Append(@, ln)]
    ELSE Append(pv_map, [pv |-> pv, registros |-> <<ln>>])

\* lines 161-180: one iteration of the loop over the lines
eefi_line(pv_map, ln, modo) ==
  LET tipo == Slice(ln, 0, 3)
  IN IF tipo \in {T030, T052} THEN pv_map
     ELSE IF (modo = "completo" /\ tipo = T032) \/ tipo \in EEFI_DETALHE
       THEN LET pv == extract_pv(ln, tipo)
            IN IF pv # None THEN MapAdd(pv_map, pv, ln) ELSE pv_map
     ELSE pv_map

RECURSIVE eefi_loop(_, _, _)
eefi_loop(ls, n, modo) ==
  IF n = 0 THEN <<>> ELSE eefi_line(eefi_loop(ls, n - 1, modo), ls[n], modo)

\* lines 194-219: counters and values of one PV, over the given types
RECURSIVE SumValor(_, _)
SumValor(registros, tipos) ==
  IF Len(registros) = 0 THEN 0
  ELSE LET ln   == registros[1]
           tipo == Slice(ln, 0, 3)
       IN (IF tipo \in tipos
             THEN to_int_cents(Slice(ln, LAYOUT_VALOR(tipo)[1], LAYOUT_VALOR(tipo)[2]))
             ELSE 0)
          + SumValor(Tail(registros), tipos)

Qtd(registros, tipos) ==
  Cardinality({i \in 1..Len(registros) : Slice(registros[i], 0, 3) \in tipos})

\* (mutant) the 040 are added to the normal credits
CRED_NORM_040 == {T034, T040}

CRED_NORM == {T034}
ANTECIP   == {T036}
AJ_CRED   == {T043}
AJ_DEB    == {T035, T038, T045}

\* line 221
total_pv(registros) ==
  SumValor(registros, CRED_NORM) + SumValor(registros, ANTECIP)
  + SumValor(registros, AJ_CRED) - SumValor(registros, AJ_DEB)

\* an amount as f"{n:0>15}" writes it ("-" in front when negative)
fmt(n, width) == IF n < 0 THEN zfill(<<"-">> \o str(0 - n), width) ELSE zfill(str(n), width)

\* lines 233-248: the 052 line of a child, from the number of records of
\* the bucket, its four counters and its four sums; each field is padded to
\* its width with zeros on the left (a wider value is written whole) and the
\* line is padded, never cut, to 400 characters
trailer_child(pv9, n_registros, qtd, valor) ==
  ljust(T052 \o fmt(1, 4) \o fmt(2 + n_registros, 6) \o pv9
        \o fmt(qtd.cred_norm, 4) \o fmt(valor.cred_norm, 15)
        \o fmt(qtd.ant, 6)       \o fmt(valor.ant, 15)
        \o fmt(qtd.aj_cred, 4)   \o fmt(valor.aj_cred, 15)
        \o fmt(qtd.aj_deb, 4)    \o fmt(valor.aj_deb, 15), 400)

\* lines 225-257: the child of one PV
eefi_child(m, header_030, out_dir, data_emissao, nsa) ==
  LET pv9 == zfill(str(int(m.pv)), 9)
  IN [path |-> <<out_dir, m.pv \o <<"_">> \o data_emissao \o <<"_">> \o nsa
                          \o <<"_", "E", "E", "F", "I", ".", "t", "x", "t">>>>,
      pv |-> m.pv,
      linhas |-> <<write_fixed(header_030, 81, 90, pv9)>>
                 \o m.registros
                 \o <<trailer_child(pv9, Len(m.registros),
                       [cred_norm |-> Qtd(m.registros, CRED_NORM),
                        ant       |-> Qtd(m.registros, ANTECIP),
                        aj_cred   |-> Qtd(m.registros, AJ_CRED),
                        aj_deb    |-> Qtd(m.registros, AJ_DEB)],
                       [cred_norm |-> SumValor(m.registros, CRED_NORM),
                        ant       |-> SumValor(m.registros, ANTECIP),
                        aj_cred   |-> SumValor(m.registros, AJ_CRED),
                        aj_deb    |-> SumValor(m.registros, AJ_DEB)])>>]

RECURSIVE SumTotalPv(_)
SumTotalPv(pv_map) ==
  IF Len(pv_map) = 0 THEN 0
  ELSE total_pv(pv_map[1].registros) + SumTotalPv(Tail(pv_map))

\* lines 146-154: the signed total of the mother 052 (the last one)
total_mae_052(ls) ==
  LET is052 == {i \in 1..Len(ls) : startswith(ls[i], T052)}
      t     == ls[CHOOSE i \in is052 : \A j \in is052 : j <= i]
  IN IF is052 = {} THEN 0
     ELSE to_int_cents(Slice(t, 26, 41)) + to_int_cents(Slice(t, 47, 62))
          + to_int_cents(Slice(t, 66, 81)) - to_int_cents(Slice(t, 85, 100))

\* process_eefi: every exception is caught and answered with ok = False
process_eefi(ls) ==
  LET tem_032 == \E i \in 1..Len(ls) : startswith(ls[i], T032)
      tem_040 == \E i \in 1..Len(ls) : startswith(ls[i], T040)
      tem_052 == \E i \in 1..Len(ls) : startswith(ls[i], T052)
  IN IF Len(ls) = 0 \/ ~(tem_032 \/ tem_040) THEN Raised
     ELSE
       LET header_030   == ls[1]
           nsa          == Slice(header_030, 75, 81)
           data_emissao == Slice(header_030, 3, 11)
           modo         == IF tem_032 THEN "completo" ELSE "simplificado"
           pv_map       == eefi_loop(ls, Len(ls), modo)
           out_dir      == OutputDir \o <<"/", "N", "S", "A", "_">> \o nsa
           soma_filhos  == SumTotalPv(pv_map)
           ok           == tem_052 => soma_filhos = total_mae_052(ls)
       IN [status |-> IF ok THEN "OK" ELSE "ERRO", ok |-> ok,
           data_ref |-> data_emissao, nsa |-> nsa,
           trailer |-> <<total_mae_052(ls)>>, processado |-> <<soma_filhos>>,
           verdicts |-> <<>>, detalhe |-> <<>>,
           written |-> [i \in 1..Len(pv_map) |->
                          eefi_child(pv_map[i], header_030, out_dir, data_emissao, nsa)]]

\* ------------------------------------------------------------ mother files
\* PVs: two establishments and the matrix of the mother header
PVA == <<"0", "2", "0", "7", "7", "0", "6", "7", "7">>
PVB == <<"0", "2", "0", "7", "7", "0", "6", "7", "8">>
PVM == <<"0", "2", "0", "7", "7", "0", "6", "0", "0">>
Emissao == <<"0", "5", "1", "0", "2", "0", "2", "5">>     \* DDMMAAAA
Sequencia == <<"0", "0", "0", "0", "4", "1">>             \* NSA, six digits
money(n) == zfill(str(n), 15)
Filler(n) == Rep("X", n)

\* EEVC.  Header 002: the emission date at [3,11); the sequence and the PV
\* of the group either at [75,81) and [81,90) (the layout of spec 3) or at
\* [71,77) and [77,86) (the layout the comments of _extract_data_nsa give).
H002(at) ==
  <<"0", "0", "2">> \o Emissao \o Filler(at - 11) \o Sequencia \o PVM \o Filler(75 - at)
EEVC_Headers == {H002(75), H002(71)}
L004(pv) == <<"0", "0", "4">> \o pv
\* an RV (006) or a CV (008) of a PV, the amount at [114,129)
LRV(tipo, pv, n) == tipo \o pv \o Rep(" ", 102) \o money(n)
L026(pv) == <<"0", "2", "6">> \o pv
\* mother trailer 028, "valor total líquido" at [133,148)
L028(n) == <<"0", "2", "8">> \o Rep(" ", 130) \o money(n)
EEVC_Lines ==
  {L004(PVA), L004(PVB), LRV(<<"0", "0", "6">>, PVA, 100),
   LRV(<<"0", "1", "0">>, PVA, 250), LRV(<<"0", "0", "8">>, PVA, 999), L026(PVA)}
EEVC_Trailers == {L028(100), L028(350)}

\* EEVD.  Header 00: [1] matrix PV, [2] emission date, [7] NSA.
Csv(fields) == join(<<",">>, fields)
H00 == Csv(<<<<"0", "0">>, PVM, Emissao, <<"X">>, <<"X">>, <<"X">>, <<"X">>, Sequencia>>)
\* 01 (and 011, 012 in the same shape): [1] PV, [4] RV, [5] qtd_cv, [6] bruto,
\* [7] desconto, [8] liquido, [9] D or P
L01(tipo, pv, rv, bruto, desconto, pred) ==
  Csv(<<tipo, pv, <<"X">>, <<"X">>, rv, <<"1">>, money(bruto), money(desconto),
        money(bruto - desconto), pred>>)
\* 20: [3] the RV
L20(rv) == Csv(<<T20, <<"X">>, <<"X">>, rv>>)
\* mother trailer 04: [4] bruto, [5] desconto, [6] liquido
L04(bruto, desconto, liquido) ==
  Csv(<<T04, PVM, <<"1">>, <<"1">>, money(bruto), money(desconto), money(liquido)>>)
T012 == <<"0", "1", "2">>
T013 == <<"0", "1", "3">>
EEVD_Lines ==
  {L01(T01, PVA, <<"7">>, 100, 10, <<"D">>), L01(T01, PVB, <<"8">>, 100, 10, <<"P">>),
   L01(T011, PVA, <<"7">>, 40, 0, <<"D">>), L01(T012, PVA, <<"9">>, 30, 0, <<"D">>),
   L01(T013, PVB, <<"9">>, 30, 0, <<"D">>), L20(<<"7">>)}
EEVD_Trailers == {L04(100, 10, 90), L04(1000, 10, 90)}

\* EEFI.  Header 030: date [3,11), sequence [75,81), PV of the group [81,90).
H030 == T030 \o Emissao \o Filler(64) \o Sequencia \o PVM
L032(pv) == T032 \o pv
\* a financial record: the type, the digits at [3,12), the amount at its range
LFin(tipo, pv, n) ==
  tipo \o pv \o Rep(" ", LAYOUT_VALOR(tipo)[1] - 12) \o money(n)
\* mother trailer 052: valor_rv, valor_ant, valor_aj_cred, valor_aj_deb
L052(rv, ant, aj_cred, aj_deb) ==
  T052 \o fmt(1, 4) \o fmt(0, 6) \o PVM \o fmt(0, 4) \o money(rv) \o fmt(0, 6) \o money(ant)
  \o fmt(0, 4) \o money(aj_cred) \o fmt(0, 4) \o money(aj_deb)
\* complete layout: blocks opened by 032
EEFI_Completo ==
  {L032(PVA), L032(PVB), LFin(T034, PVA, 100), LFin(T034, PVB, 100),
   LFin(T035, PVA, 50), LFin(T038, PVB, 5)}
\* simplified layout: no 032
EEFI_Simplificado ==
  {LFin(T040, PVA, 70), LFin(T034, PVA, 100), LFin(T036, PVA, 30),
   LFin(T043, PVB, 20), LFin(T045, PVB, 7)}
EEFI_Trailers == {L052(100, 0, 0, 50), L052(100, 30, 0, 0)}

\* the sequences of at most n lines of a set
Bodies_(S, n) == UNION {[1..k -> S] : k \in 0..n}

\* a mother file: header, detail records, mother trailer (or none)
Mothers(headers, lib, trailers) ==
  {<<h>> \o b \o t : h \in headers, b \in Bodies_(lib, MaxRecs),
                     t \in {<<>>} \cup {<<x>> : x \in trailers}}

\* the deployment while no transfer runs
NoPull ==
  /\ wire = "agent"
  /\ VERIFY_SHA256 = TRUE
  /\ catalog = Catalog(CHOOSE place \in Places : TRUE)
  /\ PullIdle

EngineInit ==
  /\ NoPull
  /\ NoAux
  /\ resultado = [status |-> "none"]
  /\ \/ kind = "EEVC" /\ lines \in Mothers(EEVC_Headers, EEVC_Lines, EEVC_Trailers)
     \/ kind = "EEVD" /\ lines \in Mothers({H00}, EEVD_Lines, EEVD_Trailers)
     \/ kind = "EEFI" /\ lines \in Mothers({H030}, EEFI_Completo, EEFI_Trailers)
     \/ kind = "EEFI" /\ lines \in Mothers({H030}, EEFI_Simplificado, EEFI_Trailers)

\* the run of one processor on the mother file
Process(k, resp) ==
  /\ kind = k
  /\ resultado.status = "none"
  /\ resultado' = resp
  /\ UNCHANGED <<wire, VERIFY_SHA256, catalog, kind, lines, srv, agent, disk, aux>>

ProcessEEVC == Process("EEVC", process_eevc(lines))
ProcessEEVD == Process("EEVD", process_eevd(lines))
ProcessEEFI == Process("EEFI", process_eefi(lines))

EngineNext == ProcessEEVC \/ ProcessEEVD \/ ProcessEEFI

EngineSpec == EngineInit /\ [][EngineNext]_vars

\* ------------------------------------------------------------ C11
\* the PV the layout resolves for line i of the mother, None when the
\* record is not routable
C11_PvEEVC(i) ==
  LET t     == Slice(lines[i], 0, 3)
      marks == {j \in 1..i : Slice(lines[j], 0, 3) \in {<<"0", "0", "4">>, <<"0", "2", "6">>}}
      j     == CHOOSE m \in marks : \A n \in marks : n <= m
  IN IF t \in {<<"0", "0", "2">>, <<"0", "2", "6">>, <<"0", "2", "8">>} \/ marks = {}
       THEN None
     ELSE IF Slice(lines[j], 0, 3) = <<"0", "2", "6">> THEN None
     ELSE strip(Slice(lines[j], 3, 12))

RECURSIVE C11_PvEEVD(_)
C11_PvEEVD(i) ==
  LET parts   == Parts(lines[i])
      t       == parts[1]
      rv      == IF Len(parts) > 3 THEN parts[4] ELSE Field(parts, 2, None)
      vendas  == {j \in 2..(i - 1) : /\ Parts(lines[j])[1] = T01
                                     /\ Len(Parts(lines[j])) > 4
                                     /\ Parts(lines[j])[5] = rv}
      last    == CHOOSE m \in vendas : \A n \in vendas : n <= m
      earlier == {C11_PvEEVD(j) : j \in 2..(i - 1)} \ {None}
  IN IF i = 1 \/ i = Len(lines) THEN None
     ELSE IF t \in {T01, T011} \cup CV_DETALHADOS THEN Field(parts, 1, None)
     ELSE IF t = T20
       THEN IF vendas # {} THEN Field(Parts(lines[last]), 1, None)
            ELSE IF Cardinality(earlier) = 1 THEN CHOOSE pv \in earlier : TRUE
            ELSE None
     ELSE AjustePV(t, parts)

C11_PvEEFI(i) ==
  LET t == Slice(lines[i], 0, 3)
  IN IF t \in EEFI_DETALHE \cup {T032} THEN extract_pv(lines[i], t) ELSE None

C11_Pv(i) ==
  LET pv == IF kind = "EEVC" THEN C11_PvEEVC(i)
            ELSE IF kind = "EEVD" THEN C11_PvEEVD(i)
            ELSE C11_PvEEFI(i)
  IN IF pv = <<>> THEN None ELSE pv

\* the records of the mother routed to pv, in the order of the mother
RECURSIVE C11_Select(_, _)
C11_Select(pv, n) ==
  IF n = 0 THEN <<>>
  ELSE C11_Select(pv, n - 1) \o (IF C11_Pv(n) = pv THEN <<lines[n]>> ELSE <<>>)

\* the records of a child between its header and its synthesized trailers
C11_Details(c) ==
  LET k == IF kind = "EEVD" THEN 3 ELSE IF kind = "EEVC" THEN 2 ELSE 1
  IN SubSeq(c.linhas, 2, Len(c.linhas) - k)

\* the run wrote its children: the mother was accepted, and an EEVD mother
\* ends with its trailer 04
C11_Split ==
  /\ resultado.status \notin {"none", "raised"}
  /\ kind = "EEVD" => Parts(lines[Len(lines)])[1] = T04

C11_Pvs == {C11_Pv(i) : i \in 1..Len(lines)} \ {None}

C12_Filhos ==
  IF resultado.status \in {"none", "raised"} THEN {}
  ELSE {c \in {Children(resultado.written)[p] : p \in Paths(resultado.written)} :
          c.pv # None}

\* h is m with the len bytes from index at (from 1) replaced by field
C12_Rewritten(h, m, at, len, field) ==
  /\ Len(h) = Len(m)
  /\ \A i \in 1..Len(m) : (i < at \/ i >= at + len) => h[i] = m[i]
  /\ SubSeq(h, at, at + len - 1) = field

\* the header 00 of an EEVD child: the fields of the mother, field 1 the PV
C12_Csv(h, m, field) ==
  /\ Len(Parts(h)) = Len(Parts(m))
  /\ \A k \in 1..Len(Parts(m)) : k # 2 => Parts(h)[k] = Parts(m)[k]
  /\ Parts(h)[2] = field

C12_WitnessBase(k) ==
  /\ kind = k
  /\ \E c \in C12_Filhos : c.linhas[1] # lines[1]
C13_Reconciled == resultado.status \in {"OK", "ERRO"} /\ Len(resultado.verdicts) > 0

\* the verdict of one dimension for mother total m and computed sum c
C13_Verdict(v, m, c) ==
  /\ v.ok <=> m = c
  /\ ~v.ok =>
       /\ v.valor = format_reais(IF m > c THEN m - c ELSE c - m)
       /\ v.direcao = IF c < m THEN "a menor" ELSE "a maior"

C14_NoTrailer ==
  IF kind = "EEVC" THEN \A i \in 1..Len(lines) : ~startswith(lines[i], <<"0", "2", "8">>)
  ELSE IF kind = "EEVD" THEN \A i \in 1..Len(lines) : Parts(lines[i])[1] # T04
  ELSE \A i \in 1..Len(lines) : ~startswith(lines[i], T052)

\* C14: a mother without its trailer (028 for EEVC, 04 for EEVD, 052 for
\* EEFI) makes the run abort with an error: it gives no OK verdict and takes
\* no detail record for the trailer.
C14_AbortsWithoutTrailer ==
  (resultado.status # "none" /\ C14_NoTrailer) => resultado.status = "raised"

\* ------------------------------------------------------------ C15
\* the records that carry the "valor líquido" of a sale summary (RV)
C15_RV == {<<"0", "0", "6">>, <<"0", "1", "0">>, <<"0", "1", "6">>, <<"0", "2", "2">>}
C15_CV == {<<"0", "0", "8">>, <<"0", "1", "2">>, <<"0", "1", "4">>, <<"0", "1", "8">>,
           <<"0", "2", "4">>}

\* the sum of the "valor líquido" [114,129) of the RVs among some records
RECURSIVE C15_SumRV(_)
C15_SumRV(ls) ==
  IF Len(ls) = 0 THEN 0
  ELSE (IF Slice(ls[1], 0, 3) \in C15_RV THEN int(Slice(ls[1], 114, 129)) ELSE 0)
       + C15_SumRV(Tail(ls))

\* the records of an EEVC child before its 026 and 028
C15_Records(c) == SubSeq(c.linhas, 2, Len(c.linhas) - 2)

RECURSIVE C15_SumChildren(_)
C15_SumChildren(w) ==
  IF Len(w) = 0 THEN 0 ELSE C15_SumRV(C15_Records(w[1])) + C15_SumChildren(Tail(w))

\* C15: the 026 synthesized for an EEVC child has, read at [124,138), the sum
\* of the "valor líquido" of the 006/010/016/022 of the bucket and of nothing
\* else; the 008/012/014/018/024 are in the child and add nothing, neither to
\* the 026 nor to the sum compared with the 028 of the mother.
C15_Aggregation ==
  (kind = "EEVC" /\ resultado.status \in {"OK", "ERRO"}) =>
    /\ \A i \in 1..Len(resultado.written) :
         LET c == resultado.written[i]
             t == c.linhas[Len(c.linhas) - 1]
         IN /\ startswith(t, <<"0", "2", "6">>)
            /\ int(Slice(t, 124, 138)) = C15_SumRV(C15_Records(c))
    /\ resultado.processado = <<C15_SumChildren(resultado.written)>>

\* a child with an RV and a CV that carries an amount; the mother reconciles
C15_Witness ==
  /\ kind = "EEVC"
  /\ resultado.status = "OK"
  /\ \E i \in 1..Len(resultado.written) :
       LET r == C15_Records(resultado.written[i])
       IN /\ \E k \in 1..Len(r) : Slice(r[k], 0, 3) \in C15_RV
          /\ \E k \in 1..Len(r) :
               Slice(r[k], 0, 3) \in C15_CV /\ int(Slice(r[k], 114, 129)) > 0

\* ------------------------------------------------------------ C16
\* an EEVD mother that was split into the children of its PVs
C16_Split ==
  /\ kind = "EEVD"
  /\ resultado.status \in {"OK", "ERRO"}
  /\ Len(resultado.verdicts) = 3

\* the records of an EEVD child before its trailers 02, 03, 04
C16_Records(c) == SubSeq(c.linhas, 2, Len(c.linhas) - 3)

\* the sum of field k (from 0) of the records 01 among some records
RECURSIVE C16_Sum01(_, _)
C16_Sum01(ls, k) ==
  IF Len(ls) = 0 THEN 0
  ELSE (IF Parts(ls[1])[1] = T01 THEN int(Parts(ls[1])[k + 1]) ELSE 0)
       + C16_Sum01(Tail(ls), k)

\* the number of records among ls that count as a CV: qtd_cv of each 01, one
\* for each 011, 05, 13 and 20
RECURSIVE C16_CountCV(_)
C16_CountCV(ls) ==
  IF Len(ls) = 0 THEN 0
  ELSE LET parts == Parts(ls[1])
       IN (IF parts[1] = T01 THEN int(parts[6])
           ELSE IF parts[1] \in {T011, T20} \cup CV_DETALHADOS THEN 1 ELSE 0)
          + C16_CountCV(Tail(ls))

RECURSIVE C16_SumChildren(_, _)
C16_SumChildren(w, k) ==
  IF Len(w) = 0 THEN 0
  ELSE C16_Sum01(C16_Records(w[1]), k) + C16_SumChildren(Tail(w), k)

\* the routed records 011 of the mother
C16_Cancelamentos ==
  {i \in 2..(Len(lines) - 1) : Parts(lines[i])[1] = T011}

\* C16: a cancellation 011 of an EEVD mother is written to the child of its
\* PV and counted in the counters of that child, and it changes none of the
\* totals bruto, desconto, liquido: the trailer 04 of every child and the
\* sums compared with the 04 of the mother are those of the records 01 alone.
C16_Cancellations ==
  (C16_Split /\ Parts(lines[Len(lines)])[1] = T04) =>
    /\ \A i \in C16_Cancelamentos :
         \E j \in 1..Len(resultado.written) :
           LET c == resultado.written[j]
           IN /\ c.pv = Parts(lines[i])[2]
              /\ \E k \in 1..Len(C16_Records(c)) : C16_Records(c)[k] = lines[i]
    /\ \A j \in 1..Len(resultado.written) :
         LET c  == resultado.written[j]
             t4 == Parts(c.linhas[Len(c.linhas)])
         IN /\ t4[1] = T04
            /\ int(t4[4]) = C16_CountCV(C16_Records(c))
            /\ \A d \in 1..3 : int(t4[4 + d]) = C16_Sum01(C16_Records(c), 5 + d)
    /\ \A d \in 1..3 : resultado.processado[d] = C16_SumChildren(resultado.written, 5 + d)

\* a child with a sale 01 and a cancellation 011 that carries amounts, its
\* trailer counting two CVs
C16_Witness ==
  /\ C16_Split
  /\ resultado.status = "OK"
  /\ \E j \in 1..Len(resultado.written) :
       LET c == resultado.written[j]
           r == C16_Records(c)
       IN /\ \E k \in 1..Len(r) : Parts(r[k])[1] = T01
          /\ \E k \in 1..Len(r) : Parts(r[k])[1] = T011 /\ int(Parts(r[k])[7]) > 0
          /\ int(Parts(c.linhas[Len(c.linhas)])[4]) = 2

\* ------------------------------------------------------------ C17
\* the records 012 and 013 of an EEVD mother
C17_Tipos == {T012, T013}
C17_Records == {i \in 2..(Len(lines) - 1) : Parts(lines[i])[1] \in C17_Tipos}

\* the sum of field k (from 0) of the records of the types ts among ls
RECURSIVE C17_Sum(_, _, _)
C17_Sum(ls, ts, k) ==
  IF Len(ls) = 0 THEN 0
  ELSE (IF Parts(ls[1])[1] \in ts THEN int(Parts(ls[1])[k + 1]) ELSE 0)
       + C17_Sum(Tail(ls), ts, k)

\* the run of an EEVD mother that ends with its 04 has finished
C17_Done ==
  /\ kind = "EEVD"
  /\ resultado.status \in {"OK", "ERRO"}
  /\ Parts(lines[Len(lines)])[1] = T04

C18_Split == kind = "EEFI" /\ resultado.status \in {"OK", "ERRO"}

\* simplified layout: the mother has no 032
C18_Simplified == \A i \in 1..Len(lines) : ~startswith(lines[i], T032)

\* the amount of a financial record, at the range of its type
C18_Valor(ln) ==
  LET t == Slice(ln, 0, 3)
  IN IF t \in {T034, T036, T038} THEN int(Slice(ln, 31, 46))
     ELSE IF t = T035 THEN int(Slice(ln, 29, 44))
     ELSE IF t = T043 THEN int(Slice(ln, 48, 63))
     ELSE IF t \in {T040, T045} THEN int(Slice(ln, 12, 27))
     ELSE 0

RECURSIVE C18_Sum(_, _)
C18_Sum(ls, ts) ==
  IF Len(ls) = 0 THEN 0
  ELSE (IF Slice(ls[1], 0, 3) \in ts THEN C18_Valor(ls[1]) ELSE 0) + C18_Sum(Tail(ls), ts)

\* the records of an EEFI child between its 030 and its 052
C18_Records(c) == SubSeq(c.linhas, 2, Len(c.linhas) - 1)

\* the four amounts of the 052 of a child are those of the formula, the
\* credits being the records of the types cred
C18_Trailer(c, cred) ==
  LET t == c.linhas[Len(c.linhas)]
      r == C18_Records(c)
  IN /\ startswith(t, T052)
     /\ int(Slice(t, 26, 41)) = C18_Sum(r, cred)
     /\ int(Slice(t, 47, 62)) = C18_Sum(r, {T036})
     /\ int(Slice(t, 66, 81)) = C18_Sum(r, {T043})
     /\ int(Slice(t, 85, 100)) = C18_Sum(r, {T035, T038, T045})

C18_Total(c, cred) ==
  LET r == C18_Records(c)
  IN C18_Sum(r, cred) + C18_Sum(r, {T036}) + C18_Sum(r, {T043})
     - C18_Sum(r, {T035, T038, T045})

RECURSIVE C18_SumTotals(_, _)
C18_SumTotals(w, cred) ==
  IF Len(w) = 0 THEN 0 ELSE C18_Total(w[1], cred) + C18_SumTotals(Tail(w), cred)

C18_Formula(cred) ==
  /\ \A j \in 1..Len(resultado.written) : C18_Trailer(resultado.written[j], cred)
  /\ resultado.processado = <<C18_SumTotals(resultado.written, cred)>>

\* C18 (as claimed): for every PV of an EEFI mother, cred_norm is the sum of
\* the 034, plus the 040 in the simplified layout, antecipacao the sum of the
\* 036, ajuste_cred of the 043, ajuste_deb of the 035, 038 and 045, and the
\* total is cred_norm + antecipacao + ajuste_cred - ajuste_deb.
C18_TotalsWith040 ==
  C18_Split => C18_Formula(IF C18_Simplified THEN {T034, T040} ELSE {T034})

\* C18 (amended): the same totals, the 040 adding nothing in either layout.
C18_Totals == C18_Split => C18_Formula({T034})

\* a simplified mother with a 040 and a 034 of one PV, and a debit
C18_Witness ==
  /\ C18_Split
  /\ C18_Simplified
  /\ \E j \in 1..Len(resultado.written) :
       LET r == C18_Records(resultado.written[j])
       IN /\ C18_Sum(r, {T040}) > 0
          /\ C18_Sum(r, {T034}) > 0
  /\ \E j \in 1..Len(resultado.written) :
       C18_Sum(C18_Records(resultado.written[j]), {T045}) > 0

\* ------------------------------------------------------------ C19
\* complete layout: the mother has a 032
C19_Complete ==
  /\ kind = "EEFI"
  /\ resultado.status \in {"OK", "ERRO"}
  /\ \E i \in 1..Len(lines) : startswith(lines[i], T032)

C19_Financeiros == {T034, T035, T036, T038, T043}

\* the PV of the most recent 032 before line i, None when there is none
C19_CurrentPv(i) ==
  LET heads == {j \in 1..(i - 1) : startswith(lines[j], T032)}
  IN IF heads = {} THEN None
     ELSE Slice(lines[CHOOSE j \in heads : \A k \in heads : k <= j], 3, 12)

\* the child of pv holds the record ln
C19_InChild(pv, ln) ==
  \E j \in 1..Len(resultado.written) :
    LET c == resultado.written[j]
    IN c.pv = pv /\ \E k \in 2..(Len(c.linhas) - 1) : c.linhas[k] = ln

C20_Emissao ==
  IF kind = "EEVD" THEN Parts(lines[1])[3] ELSE Slice(lines[1], 3, 11)

\* DDMMAA of a date DDMMAAAA
C20_SixDigits(d) == SubSeq(d, 1, 4) \o SubSeq(d, 7, 8)

C20_Kind ==
  IF kind = "EEVC" THEN <<"E", "E", "V", "C">>
  ELSE IF kind = "EEVD" THEN <<"E", "E", "V", "D">>
  ELSE <<"E", "E", "F", "I">>

\* the path <output_root>/NSA_<nsa>/<pv>_<DDMMAA>_<nsa>_<KIND>.txt
C20_Path(pv, nsa) ==
  <<OutputDir \o <<"/", "N", "S", "A", "_">> \o nsa,
    pv \o <<"_">> \o C20_SixDigits(C20_Emissao) \o <<"_">> \o nsa \o <<"_">>
       \o C20_Kind \o <<".", "t", "x", "t">>>>

\* the sequence numbers a path may use: the six digits of the header or
\* their last three
C20_Nsas == {Sequencia, SubSeq(Sequencia, 4, 6)}

\* C20: for every kind, the child of a PV is written at
\* <output_root>/NSA_<NSA>/<PV>_<DDMMAA>_<NSA>_<KIND>.txt, DDMMAA the six
\* digits of the emission date of the mother header and the same NSA in the
\* directory and in the file name.
C20_ChildPath ==
  \A c \in C12_Filhos : \E nsa \in C20_Nsas : c.path = C20_Path(c.pv, nsa)

\* ================================================================ C21
\* The synthesis of the 052 line as a function of the locals it is built
\* from (eefi_processor.py:221-248): the bucket's number of records, the
\* four counters and the four sums.  A counter ranges up to MaxQtd records
\* of its class; the bucket holds at least the records that are counted.
Qtds    == {0, 1, MaxQtd - 1, MaxQtd}
Valores == {0, 12345}
Classes == {"cred_norm", "ant", "aj_cred", "aj_deb"}

TrailerArgs ==
  {a \in [pv : {PVA}, outros : {0, 1},
          qtd : [Classes -> Qtds], valor : [Classes -> Valores]] :
     /\ a.qtd.ant \in {0, 1}
     /\ \A c \in Classes : (a.qtd[c] = 0) = (a.valor[c] = 0)}

\* len(registros) of the bucket: the counted records and the others (032, 040)
NRegistros(a) ==
  a.outros + a.qtd.cred_norm + a.qtd.ant + a.qtd.aj_cred + a.qtd.aj_deb

TrailerInit ==
  /\ NoPull
  /\ kind = "EEFI"
  /\ lines = <<>>
  /\ resultado = [status |-> "none"]
  /\ args \in TrailerArgs
  /\ up = [pc |-> "none"]
  /\ rota = [pc |-> "none"]
  /\ integridade = [status |-> "none"]

\* lines 233-248 on the locals in args
Synthesize ==
  /\ args # <<>>
  /\ resultado.status = "none"
  /\ resultado' = [status |-> "trailer",
                   linha |-> trailer_child(zfill(str(int(args.pv)), 9),
                                           NRegistros(args), args.qtd, args.valor)]
  /\ UNCHANGED <<wire, VERIFY_SHA256, catalog, kind, lines, srv, agent, disk, aux>>

TrailerSpec == TrailerInit /\ [][Synthesize]_vars

\* the registry ranges of the 052 record (LAYOUT_POS, lines 44-57) read back
C21_Read(linha) ==
  [qtde_registros |-> Slice(linha, 7, 13),
   qtd   |-> [cred_norm |-> Slice(linha, 22, 26), ant    |-> Slice(linha, 41, 47),
              aj_cred   |-> Slice(linha, 62, 66), aj_deb |-> Slice(linha, 81, 85)],
   valor |-> [cred_norm |-> Slice(linha, 26, 41), ant    |-> Slice(linha, 47, 62),
              aj_cred   |-> Slice(linha, 66, 81), aj_deb |-> Slice(linha, 85, 100)]]

C21_Exact(a, linha) ==
  LET r == C21_Read(linha)
  IN /\ Len(linha) = 400
     /\ isdigit(r.qtde_registros) /\ int(r.qtde_registros) = 2 + NRegistros(a)
     /\ \A c \in Classes :
          /\ isdigit(r.qtd[c])   /\ int(r.qtd[c])   = a.qtd[c]
          /\ isdigit(r.valor[c]) /\ int(r.valor[c]) = a.valor[c]

\* C21: for every value of the counters and sums of a bucket the synthesized
\* 052 line is 400 characters long and each registry range of the line reads
\* back the aggregated value of its field.
C21_TrailerExact ==
  resultado.status = "trailer" => C21_Exact(args, resultado.linha)

\* the same for the buckets whose counters fit the width of their fields
C21_FitsWidth ==
  (resultado.status = "trailer" /\ \A c \in Classes : args.qtd[c] <= 9999)
    => C21_Exact(args, resultado.linha)

\* ================================================================ C22
\* Mother files whose first record is not the header of their kind: the
\* header line is missing, or (EEVC) it comes after the detail records.
Headless(lib, trailers) ==
  {b \o <<t>> : b \in Bodies_(lib, MaxRecs) \ {<<>>}, t \in trailers}

Misplaced(headers, lib, trailers) ==
  {b \o <<h, t>> : b \in Bodies_(lib, MaxRecs - 1) \ {<<>>},
                   h \in headers, t \in trailers}

HeaderInit ==
  /\ NoPull
  /\ NoAux
  /\ resultado = [status |-> "none"]
  /\ \/ kind = "EEVC" /\ lines \in Headless(EEVC_Lines, EEVC_Trailers)
     \/ kind = "EEVC" /\ lines \in Misplaced(EEVC_Headers, EEVC_Lines, EEVC_Trailers)
     \/ kind = "EEVD" /\ lines \in Headless(EEVD_Lines, EEVD_Trailers)
     \/ kind = "EEFI" /\ lines \in Headless(EEFI_Completo, EEFI_Trailers)

HeaderSpec == HeaderInit /\ [][EngineNext]_vars

\* the first record of the mother is the header of its kind
C22_HeaderFirst ==
  /\ Len(lines) > 0
  /\ \/ kind = "EEVC" /\ startswith(lines[1], <<"0", "0", "2">>)
     \/ kind = "EEVD" /\ split(lines[1])[1] = <<"0", "0">>
     \/ kind = "EEFI" /\ startswith(lines[1], T030)

\* C22: for every kind, when the first record of the mother is not the
\* kind's header (030, 002, 00), processing fails with an error and writes
\* no child.
C22_HeaderRequired ==
  (resultado.status # "none" /\ ~C22_HeaderFirst)
    => (resultado.status = "raised" /\ resultado.written = <<>>)

\* a headless mother of each kind was processed without an error and left
\* children
C22_AcceptedEEVC ==
  kind = "EEVC" /\ ~C22_HeaderFirst /\ resultado.status = "OK" /\ resultado.written # <<>>
C22_AcceptedEEVD ==
  kind = "EEVD" /\ ~C22_HeaderFirst /\ resultado.status = "OK" /\ resultado.written # <<>>
C22_AcceptedEEFI ==
  kind = "EEFI" /\ ~C22_HeaderFirst /\ resultado.status = "OK" /\ resultado.written # <<>>

\* ================================================================ C23
\* the detail lines of the EEVD mother that are records 20
C23_Twenties == {i \in 2..(Len(lines) - 1) : Parts(lines[i])[1] = T20}

\* the RV a record 20 refers to
C23_Rv(i) ==
  LET parts == Parts(lines[i])
  IN IF Len(parts) > 3 THEN parts[4] ELSE Field(parts, 2, None)

\* the records 01 read before line i that carry the RV of line i
C23_Vendas(i) ==
  {j \in 2..(i - 1) : /\ Parts(lines[j])[1] = T01
                      /\ Len(Parts(lines[j])) > 4
                      /\ Parts(lines[j])[5] = C23_Rv(i)}

\* the PVs that have a bucket when line i is read: a 20 opens no bucket
C23_PvsBefore(i) ==
  {C11_PvEEVD(j) : j \in {k \in 2..(i - 1) : Parts(lines[k])[1] # T20}} \ {None, <<>>}

\* where the statement sends the record 20 of line i (None: dropped)
C23_Target(i) ==
  IF C23_Vendas(i) # {}
    THEN Field(Parts(lines[CHOOSE m \in C23_Vendas(i) :
                             \A n \in C23_Vendas(i) : n <= m]), 1, None)
  ELSE IF Cardinality(C23_PvsBefore(i)) = 1
    THEN CHOOSE pv \in C23_PvsBefore(i) : TRUE
  ELSE None

\* the number of records 20 among the records of a child
RECURSIVE C23_Count20(_)
C23_Count20(ls) ==
  IF Len(ls) = 0 THEN 0
  ELSE (IF Parts(ls[1])[1] = T20 THEN 1 ELSE 0) + C23_Count20(Tail(ls))

\* C23: a record 20 of an EEVD mother is attached to the PV of the earlier
\* 01 that carries its RV; when its RV is unknown it is attached to the
\* single PV if exactly one PV exists and dropped otherwise; no record 20 is
\* attached to two buckets.
C23_RechargeRouting ==
  (kind = "EEVD" /\ C11_Split) =>
    LET w == resultado.written
    IN /\ \A i \in C23_Twenties :
            C23_Target(i) # None => \E p \in Paths(w) : Children(w)[p].pv = C23_Target(i)
       /\ \A p \in Paths(w) :
            LET c == Children(w)[p]
            IN IF c.pv = None THEN C23_Twenties = {}
               ELSE C23_Count20(C16_Records(c))
                      = Cardinality({i \in C23_Twenties : C23_Target(i) = c.pv})

\* a mother with two buckets was split, and a record 20 went by its RV
C23_Witness ==
  /\ kind = "EEVD" /\ C11_Split
  /\ \E i \in C23_Twenties :
       /\ C23_Vendas(i) # {}
       /\ Cardinality(C23_PvsBefore(i)) = 2
       /\ \E p \in Paths(resultado.written) :
            LET c == Children(resultado.written)[p]
            IN c.pv = C23_Target(i) /\ C23_Count20(C16_Records(c)) = 1

\* a record 20 of unknown RV went to the single bucket
C23_WitnessSingle ==
  /\ kind = "EEVD" /\ C11_Split
  /\ \E i \in C23_Twenties :
       /\ C23_Vendas(i) = {} /\ C23_Target(i) # None
       /\ \E p \in Paths(resultado.written) :
            LET c == Children(resultado.written)[p]
            IN c.pv = C23_Target(i) /\ C23_Count20(C16_Records(c)) = 1

\* a record 20 of unknown RV was dropped while two buckets existed
C23_WitnessDropped ==
  /\ kind = "EEVD" /\ C11_Split
  /\ Len(resultado.written) = 2
  /\ \E i \in C23_Twenties :
       C23_Vendas(i) = {} /\ Cardinality(C23_PvsBefore(i)) = 2
  /\ \A p \in Paths(resultado.written) :
       C23_Count20(C16_Records(Children(resultado.written)[p])) = 0

\* ================================================================ C24
\* the record type of line i of the mother
C24_Tipo(i) == Slice(lines[i], 0, 3)

\* current_pv after the first n lines of the mother were read: set by each
\* 004, cleared by each 026
RECURSIVE C24_CurrentPv(_)
C24_CurrentPv(n) ==
  IF n = 0 THEN None
  ELSE IF C24_Tipo(n) = <<"0", "0", "4">> THEN strip(Slice(lines[n], 3, 12))
  ELSE IF C24_Tipo(n) = <<"0", "2", "6">> THEN None
  ELSE C24_CurrentPv(n - 1)

\* the bucket line i is attached to (None: no bucket)
C24_Bucket(i) ==
  IF C24_Tipo(i) \in {<<"0", "2", "6">>, <<"0", "2", "8">>} THEN None
  ELSE C24_CurrentPv(i)

RECURSIVE C24_Attached(_, _)
C24_Attached(pv, n) ==
  IF n = 0 THEN <<>>
  ELSE C24_Attached(pv, n - 1) \o (IF C24_Bucket(n) = pv THEN <<lines[n]>> ELSE <<>>)

\* C24: in an EEVC mother current_pv is set by each 004 and cleared by each
\* 026; a record read while current_pv is set is attached to that PV's
\* bucket unless it is a 026 or a 028, a record read while no bucket is
\* open is attached to none; no 026 line of the mother is in a child and
\* the 028 of the mother is written once, as the last line of every child.
C24_BlockRouting ==
  (kind = "EEVC" /\ C11_Split) =>
    LET w == resultado.written
    IN /\ \A i \in 1..Len(lines) :
            C24_Bucket(i) # None => \E p \in Paths(w) : Children(w)[p].pv = C24_Bucket(i)
       /\ \A p \in Paths(w) :
            LET c == Children(w)[p]
                n == Len(c.linhas)
            IN /\ SubSeq(c.linhas, 2, n - 2) = C24_Attached(c.pv, Len(lines))
               /\ \A k \in 2..(n - 2) : Slice(c.linhas[k], 0, 3) # <<"0", "2", "6">>
               /\ c.linhas[n] = lines[Len(lines)]
               /\ Slice(lines[Len(lines)], 0, 3) = <<"0", "2", "8">>
               /\ \A k \in 1..(n - 1) : Slice(c.linhas[k], 0, 3) # <<"0", "2", "8">>

\* a mother was split whose block was closed by a 026 and which has a record
\* after the 026, outside every block
C24_Witness ==
  /\ kind = "EEVC" /\ C11_Split
  /\ resultado.written # <<>>
  /\ \E i \in 2..Len(lines), j \in 2..Len(lines) :
       /\ i < j
       /\ C24_Tipo(i) = <<"0", "2", "6">> /\ C24_CurrentPv(i - 1) # None
       /\ C24_Tipo(j) \in RV_TYPES /\ C24_CurrentPv(j) = None

\* ============================================== src/splitter_core_v3.py
\* The processing the upload and process endpoints run (app.py:13, 77, 113).
\* sanitize_filename, line 35
core_sanitize_filename(name) ==
  LET t == strip(name)
  IN [i \in 1..Len(t) |-> IF ValidFnChar(t[i]) THEN t[i] ELSE "_"]

\* re.fullmatch(r"\d{8}", s)
EightDigits(s) == Len(s) = 8 /\ isdigit(s)

\* how each kind reads a line: its role, the PV of a record that opens a
\* group, and date and NSA of a header
\* process_eevc, lines 86-106
core_eevc(line) ==
  LET tipo == Slice(line, 0, 3)
  IN [role |-> IF tipo = <<"0", "0", "2">> THEN "header"
               ELSE IF tipo = <<"0", "0", "4">> THEN "pv"
               ELSE IF tipo = <<"0", "2", "8">> THEN "trailer" ELSE "other",
      text |-> line,
      pv |-> strip(Slice(line, 3, 12)),
      data_raw |-> strip(Slice(line, 3, 11)),
      nsa_raw |-> strip(Slice(line, 67, 73))]

\* process_eevd, lines 135-155
core_eevd(line) ==
  LET parts == Parts(line)
      tipo  == parts[1]
  IN [role |-> IF tipo = <<"0", "0">> THEN "header"
               ELSE IF tipo = T04 THEN "trailer"
               ELSE IF tipo = T01 /\ Len(parts) > 1 THEN "pv" ELSE "other",
      text |-> strip(line),
      pv |-> Field(parts, 1, <<>>),
      data_raw |-> Field(parts, 2, <<>>),
      nsa_raw |-> Field(parts, 7, <<>>)]

\* process_eefi, lines 184-204
core_eefi(line) ==
  LET tipo == Slice(line, 0, 3)
  IN [role |-> IF tipo = T030 THEN "header"
               ELSE IF tipo = T040 THEN "pv"
               ELSE IF tipo \in {<<"0", "5", "0">>, <<"9", "9", "9">>} THEN "trailer"
               ELSE "other",
      text |-> line,
      pv |-> strip(Slice(line, 2, 11)),
      data_raw |-> strip(Slice(line, 3, 11)),
      nsa_raw |-> strip(Slice(line, 66, 71))]

core_read(k, line) ==
  IF k = "EEVC" THEN core_eevc(line)
  ELSE IF k = "EEVD" THEN core_eevd(line)
  ELSE core_eefi(line)

\* one iteration of the loop over the lines of the mother
core_line(st, r) ==
  IF r.role = "header"
    THEN [st EXCEPT !.header = r.text,
                    !.data_mov = IF EightDigits(r.data_raw)
                                   THEN Slice(r.data_raw, 0, 4) \o Slice(r.data_raw, 6, 8)
                                   ELSE @,
                    !.nsa = IF isdigit(r.nsa_raw)
                              THEN zfill(SubSeq(r.nsa_raw,
                                                IF Len(r.nsa_raw) > 3 THEN Len(r.nsa_raw) - 2 ELSE 1,
                                                Len(r.nsa_raw)), 3)
                              ELSE @]
  ELSE IF r.role = "pv"
    THEN [st EXCEPT !.grupos = GroupAdd(@, r.pv, r.text, 0), !.total_proc = @ + 1]
  ELSE IF r.role = "trailer"
    THEN [st EXCEPT !.trailer = r.text, !.total_trailer = @ + 1]
  ELSE IF Len(st.grupos) > 0
    THEN [st EXCEPT !.grupos = GroupAdd(@, st.grupos[Len(st.grupos)].pv, r.text, 0)]
  ELSE st

RECURSIVE core_loop(_, _, _)
core_loop(k, ls, n) ==
  IF n = 0
    THEN [header |-> None, trailer |-> None, grupos |-> <<>>,
          data_mov |-> Rep("0", 6), nsa |-> Rep("0", 3),
          total_trailer |-> 0, total_proc |-> 0]
    ELSE core_line(core_loop(k, ls, n - 1), core_read(k, ls[n]))

\* the child of one group: header, block, trailer (each when it exists)
core_child(k, st, g) ==
  [path |-> <<OutputDir,
              core_sanitize_filename(g.pv \o <<"_">> \o st.data_mov \o <<"_">> \o st.nsa
                \o <<"_", "E", "E">> \o (IF k = "EEVC" THEN <<"V", "C">>
                                         ELSE IF k = "EEVD" THEN <<"V", "D">>
                                         ELSE <<"F", "I">>)
                \o <<".", "t", "x", "t">>)>>,
   pv |-> g.pv,
   linhas |-> (IF st.header = None THEN <<>> ELSE <<st.header>>)
              \o g.blocos
              \o (IF st.trailer = None THEN <<>> ELSE <<st.trailer>>)]

\* process_file, lines 41-71: the kind's processor, then the status from
\* total_trailer and total_processado, logged and returned
process_file(k, ls) ==
  LET st     == core_loop(k, ls, Len(ls))
      status == IF st.total_trailer = st.total_proc THEN "OK" ELSE "ERRO"
      diff   == IF st.total_trailer >= st.total_proc
                  THEN st.total_trailer - st.total_proc
                  ELSE st.total_proc - st.total_trailer
  IN [status |-> status,
      detalhe |-> IF status = "OK" THEN <<"sem divergencias">>
                  ELSE <<"Divergencia de", diff, "registros">>,
      log |-> [tipo |-> k, total_trailer |-> st.total_trailer,
               total_processado |-> st.total_proc, status |-> status],
      written |-> [i \in 1..Len(st.grupos) |-> core_child(k, st, st.grupos[i])]]

\* upload_file (app.py:64-97) and process_endpoint (102-128) on a mother
ProcessFile ==
  /\ resultado.status = "none"
  /\ resultado' = process_file(kind, lines)
  /\ UNCHANGED <<wire, VERIFY_SHA256, catalog, kind, lines, srv, agent, disk, aux>>

CoreSpec == EngineInit /\ [][ProcessFile]_vars

\* ================================================================ C25
\* the declared monetary totals of the mother trailer equal the totals
\* computed from the detail records (the reconciliation of the processors)
C25_Reconciled ==
  LET r == IF kind = "EEVC" THEN process_eevc(lines)
           ELSE IF kind = "EEVD" THEN process_eevd(lines)
           ELSE process_eefi(lines)
  IN r.status = "OK"

\* C25: the status process_file returns and logs is OK exactly when the
\* declared monetary totals of the mother trailer equal the totals computed
\* from the detail records; it is not decided by comparing record counts.
C25_StatusByTotals ==
  resultado.status # "none" =>
    /\ resultado.log.status = resultado.status
    /\ (resultado.status = "OK") = C25_Reconciled

\* the status follows the record counts: as many trailer lines as records
\* that open a group
C25_StatusByCounts ==
  resultado.status # "none" =>
    (resultado.status = "OK")
      = (resultado.log.total_trailer = resultado.log.total_processado)

\* ================================================= src/agente/uploader.py
\* upload_file(file_path), lines 25-59.  up holds the call: its position,
\* the attempt, the POSTs sent and those answered 200, where the file is
\* (at its original path, under 'enviados'), the log and the return value.
Tentativas == 3               \* range(1, 4), line 39
StatusCodes == {200, 400, 500}

UploadInit ==
  /\ NoPull
  /\ kind = "none" /\ lines = <<>> /\ resultado = [status |-> "none"]
  /\ args = <<>>
  /\ rota = [pc |-> "none"]
  /\ integridade = [status |-> "none"]
  /\ \E url_ok \in BOOLEAN :
       up = [pc |-> "start", url_ok |-> url_ok, tentativa |-> 0, posts |-> 0,
             ok200 |-> 0, orig |-> TRUE, sent |-> FALSE, log |-> <<>>, ret |-> "none"]

UploadStep(new) ==
  /\ up' = new
  /\ UNCHANGED <<wire, VERIFY_SHA256, catalog, srv, agent, disk, engine,
                 args, rota, integridade>>

\* lines 33-35: no usable URL, nothing is sent
BadUrl ==
  /\ up.pc = "start" /\ ~up.url_ok
  /\ UploadStep([up EXCEPT !.pc = "done", !.ret = "False",
                           !.log = Append(@, <<"url invalida">>)])

\* lines 37-39: the first attempt
Start ==
  /\ up.pc = "start" /\ up.url_ok
  /\ UploadStep([up EXCEPT !.pc = "try", !.tentativa = 1])

\* line 41: the file cannot be opened; the exception is caught at line 53
OpenFails ==
  /\ up.pc = "try"
  /\ UploadStep([up EXCEPT !.pc = "sleep", !.log = Append(@, <<"erro", up.tentativa>>)])

\* line 43: the POST raises (connection, timeout of 90 s); caught at line 53
PostRaises ==
  /\ up.pc = "try" /\ up.orig
  /\ UploadStep([up EXCEPT !.pc = "sleep", !.posts = @ + 1,
                           !.log = Append(@, <<"erro", up.tentativa>>)])

\* lines 43-46: the POST is answered 200
PostAccepted ==
  /\ up.pc = "try" /\ up.orig
  /\ UploadStep([up EXCEPT !.pc = "move", !.posts = @ + 1, !.ok200 = @ + 1,
                           !.log = Append(@, <<"enviado", up.tentativa>>)])

\* lines 50-51: the POST is answered with another status
PostRefused ==
  /\ up.pc = "try" /\ up.orig
  /\ \E code \in StatusCodes \ {200} :
       UploadStep([up EXCEPT !.pc = "sleep", !.posts = @ + 1,
                             !.log = Append(@, <<"falha", up.tentativa, code>>)])

\* lines 47-49: the file is moved under 'enviados' and the call returns True
MoveDone ==
  /\ up.pc = "move"
  /\ UploadStep([up EXCEPT !.pc = "done", !.orig = FALSE, !.sent = TRUE, !.ret = "True"])

\* lines 47-48 raise (makedirs or move; a move that fails leaves the source,
\* with or without a copy under 'enviados'); caught at line 53
MoveFails ==
  /\ up.pc = "move"
  /\ \E copied \in BOOLEAN :
       UploadStep([up EXCEPT !.pc = "sleep", !.sent = @ \/ copied,
                             !.log = Append(@, <<"erro", up.tentativa>>)])

\* (mutant) a fourth attempt follows the third
Retry_Four ==
  /\ up.pc = "sleep" /\ up.tentativa < Tentativas + 1
  /\ UploadStep([up EXCEPT !.pc = "try", !.tentativa = @ + 1])

\* line 56 and the next iteration of line 39
Retry ==
  /\ up.pc = "sleep" /\ up.tentativa < Tentativas
  /\ UploadStep([up EXCEPT !.pc = "try", !.tentativa = @ + 1])

\* lines 58-59: the attempts are used up
GiveUp ==
  /\ up.pc = "sleep" /\ up.tentativa >= Tentativas
  /\ UploadStep([up EXCEPT !.pc = "done", !.ret = "False",
                           !.log = Append(@, <<"falha final">>)])

UploadNext ==
  \/ BadUrl \/ Start \/ OpenFails \/ PostRaises \/ PostAccepted \/ PostRefused
  \/ MoveDone \/ MoveFails \/ Retry \/ GiveUp

UploadSpec == UploadInit /\ [][UploadNext]_vars

\* every step of the call ends (the POST has a timeout, the sleep is 5 s)
UploadLive == UploadSpec /\ WF_vars(UploadNext)

\* ================================================================ C26
\* the last log entry says the file was accepted
C26_LastAccepted ==
  Len(up.log) > 0 /\ up.log[Len(up.log)][1] = "enviado"

C26_Safe ==
  up.pc # "none" =>
    /\ up.posts <= 3
    /\ up.ret = "True" => (up.pc = "done" /\ C26_LastAccepted /\ up.sent /\ ~up.orig)
    /\ (up.pc = "done" /\ C26_LastAccepted /\ up.sent /\ ~up.orig) => up.ret = "True"
    /\ up.ret = "False" => up.orig

\* C26: upload_file always terminates, after at most 3 POST attempts; it
\* returns True exactly when an attempt was answered HTTP 200 and the file
\* was then moved to 'enviados'; when it returns False the file is still at
\* its original path.
C26_UploadTerminates ==
  /\ []C26_Safe
  /\ <>(up.pc = "done")

\* the third POST was accepted after two failed attempts and the file moved
C26_Witness ==
  up.pc = "done" /\ up.ret = "True" /\ up.posts = 3 /\ up.ok200 = 1

\* ================================================================ C30
\* C30: within one call of upload_file at most one POST is answered HTTP
\* 200: once the server accepted the file it is not sent again, whatever
\* fails afterwards.
C30_AcceptedOnce ==
  up.pc # "none" => up.ok200 <= 1

\* ========================================== src/modules/agente_routes.py
\* The agent's /pull endpoint, lines 159-235, and the entry it calls,
\* agente/downloader.py:220-243.  rota holds the request, the settings of
\* the process, the answer and what the background thread did.
Modes == {"lease", "direct", "zip"}

\* the parameters baixar_output declares (downloader.py:220) and the keyword
\* arguments the thread of /pull passes (agente_routes.py:218-224)
baixar_output_params == {"nsa_hint", "lotes", "limit"}
pull_kwargs == {"nsa_hint", "lotes", "limit", "mode", "date_filter"}

\* baixar_output, lines 228-243: the strategy is the module constant
\* DOWNLOAD_MODE (line 17), read from the environment when the module was
\* imported; a lease cycle is a lease request followed by a confirm
baixar_output(DOWNLOAD_MODE) ==
  IF DOWNLOAD_MODE = "zip" THEN <<"zip">>
  ELSE IF DOWNLOAD_MODE = "lease" THEN <<"lease", "confirm">>
  ELSE IF DOWNLOAD_MODE = "direct" THEN <<"direct">>
  ELSE <<>>

PullInit ==
  /\ NoPull
  /\ kind = "none" /\ lines = <<>> /\ resultado = [status |-> "none"]
  /\ args = <<>>
  /\ up = [pc |-> "none"]
  /\ integridade = [status |-> "none"]
  /\ \E method \in {"GET", "POST"}, mode \in Modes, dm \in Modes,
        limit \in {"1", "200", "x"}, since_days \in {"", "2"} :
       rota = [pc |-> "request", method |-> method, mode |-> mode, limit |-> limit,
               since_days |-> since_days,
               DOWNLOAD_MODE |-> dm, environ |-> dm,
               answer |-> 0, thread |-> "none", calls |-> <<>>]

RotaStep(new) ==
  /\ rota' = new
  /\ UNCHANGED <<wire, VERIFY_SHA256, catalog, srv, agent, disk, engine,
                 args, up, integridade>>

\* lines 175-231: the parameters are read, the environment variable is set,
\* the thread is started and the request is answered 202
PullAccepted ==
  /\ rota.pc = "request" /\ rota.limit # "x"
  /\ RotaStep([rota EXCEPT !.pc = "answered", !.environ = rota.mode,
                           !.thread = "started", !.answer = 202])

\* lines 183/199 raise on a limit that is not a number: answered 500 (233-235)
PullRejected ==
  /\ rota.pc = "request" /\ rota.limit = "x"
  /\ RotaStep([rota EXCEPT !.pc = "ended", !.answer = 500])

\* the thread (lines 217-226) calls baixar_output with the keyword
\* arguments of the route: a keyword the function does not declare raises
\* TypeError in the thread, before any statement of baixar_output runs
ThreadRuns ==
  /\ rota.pc = "answered" /\ rota.thread = "started"
  /\ RotaStep(IF pull_kwargs \subseteq baixar_output_params
                THEN [rota EXCEPT !.pc = "ended", !.thread = "returned",
                                  !.calls = baixar_output(rota.DOWNLOAD_MODE)]
                ELSE [rota EXCEPT !.pc = "ended", !.thread = "TypeError"])

PullNext == PullAccepted \/ PullRejected \/ ThreadRuns

PullSpec == PullInit /\ [][PullNext]_vars

\* ================================================================ C27
\* C27: a request to /pull with mode m in {lease, direct} is answered 202
\* and then causes one transfer cycle of strategy m (for lease: a lease
\* request followed by a confirm), whatever DOWNLOAD_MODE was when the
\* process started.
C27_PullRunsMode ==
  (rota.pc = "ended" /\ rota.mode \in {"lease", "direct"} /\ rota.limit # "x") =>
    /\ rota.answer = 202
    /\ rota.calls = baixar_output(rota.mode)

\* what the endpoint does: 202, and the thread ends without a transfer
C27_NoTransfer ==
  (rota.pc = "ended" /\ rota.limit # "x") =>
    rota.answer = 202 /\ rota.thread = "TypeError" /\ rota.calls = <<>>

\* ========================================== src/modules/validator_core.py
\* extract_tipo, line 22
extract_tipo(line) == Slice(line, 0, 3)

\* extract_pv, lines 26-32: columns [3,12) when they are nine digits, else
\* the leftmost run of nine digits in the first 80 characters
validator_extract_pv(line) ==
  LET pv == strip(Slice(line, 3, 12))
      at == DigitRun(Slice(line, 0, 80), 9)
  IN IF isdigit(pv) /\ Len(pv) = 9 THEN pv
     ELSE IF at # 0 THEN SubSeq(line, at, at + 8)
     ELSE None

\* the lines of a file that indexar_arquivo keeps: a valid type and a PV
Indexed(ls, tipos_validos) ==
  SelectSeq(ls, LAMBDA ln : /\ extract_tipo(ln) \in tipos_validos
                            /\ validator_extract_pv(ln) # None)

\* the types of some lines, in order
TiposDe(ls) == [i \in 1..Len(ls) |-> extract_tipo(ls[i])]

\* indexar_arquivo, lines 35-50: the dict PV -> types of its records
indexar_arquivo(ls, tipos_validos) ==
  LET kept == Indexed(ls, tipos_validos)
  IN [pv \in {validator_extract_pv(kept[i]) : i \in 1..Len(kept)} |->
        TiposDe(SelectSeq(kept, LAMBDA ln : validator_extract_pv(ln) = pv))]

\* child.stem.split("_")[0], line 125
StemPv(name) ==
  LET cut == {i \in 1..Len(name) : name[i] = "_"}
  IN IF cut = {} THEN name
     ELSE SubSeq(name, 1, (CHOOSE i \in cut : \A j \in cut : i <= j) - 1)

\* lines 122-127: the dict of the children of the folder; the key is taken
\* from the name of the file, the value holds the types of every indexed
\* record of the file
filhos_dict(folder, tipos_validos) ==
  [pv \in {StemPv(c.path[2]) : c \in folder} |->
     TiposDe(Indexed((CHOOSE c \in folder : StemPv(c.path[2]) = pv).linhas,
                     tipos_validos))]

\* tipos.count(t)
CountTipo(tipos, t) == Cardinality({i \in 1..Len(tipos) : tipos[i] = t})

\* dict.get(pv, [])
GetTipos(d, pv) == IF pv \in DOMAIN d THEN d[pv] ELSE <<>>

\* one row of the report
Row(mae_dict, filhos, pv, t) ==
  LET mae_qtd   == CountTipo(GetTipos(mae_dict, pv), t)
      filho_qtd == CountTipo(GetTipos(filhos, pv), t)
  IN [pv |-> pv, tipo |-> t, mae_qtd |-> mae_qtd, filho_qtd |-> filho_qtd,
      status |-> IF mae_qtd = filho_qtd THEN "OK"
                 ELSE IF filho_qtd < mae_qtd THEN "Faltando" ELSE "Extra"]

\* comparar, lines 53-80: the rows [PV, Tipo, Qtd_Mae, Qtd_Filho, Status],
\* one for each PV of either dict and each type the PV has in either (the
\* code lists them sorted by PV and type)
comparar(mae_dict, filhos) ==
  UNION {{Row(mae_dict, filhos, pv, t) :
            t \in {GetTipos(mae_dict, pv)[i] : i \in 1..Len(GetTipos(mae_dict, pv))}
                  \cup {GetTipos(filhos, pv)[i] : i \in 1..Len(GetTipos(filhos, pv))}} :
         pv \in DOMAIN mae_dict \cup DOMAIN filhos}

\* validar_generico, lines 92-150: the dict it returns (its keys in order)
\* and the rows it wrote to the report; the mother file exists
validar_generico(mae, folder, tipos_validos) ==
  IF folder = {}
    THEN [keys |-> <<<<"o", "k">>, <<"m", "e", "n", "s", "a", "g", "e", "m">>>>,
          ok |-> FALSE, csv |-> {}]
    ELSE [keys |-> <<<<"o", "k">>, <<"m", "e", "n", "s", "a", "g", "e", "m">>,
                     <<"r", "e", "l", "a", "t", "o", "r", "i", "o">>>>,
          ok |-> TRUE,
          csv |-> comparar(indexar_arquivo(mae, tipos_validos),
                           filhos_dict(folder, tipos_validos))]

\* ================================== src/modules/processador_integridade.py
\* lines 30-40: the record types compared for each kind
tipos_validos(tipo) ==
  IF tipo = "EEFI"
    THEN {T034, T035, T036, T038, T040, T043, T045}
    ELSE {<<"0", "0", "2">>, <<"0", "0", "4">>, <<"0", "0", "6">>,
          <<"0", "1", "0">>, <<"0", "1", "6">>, <<"0", "2", "2">>}

\* sum(1 for r in resultados if r[-1] == word), lines 53-55: resultados is
\* the dict validar_generico returned, so r ranges over its keys and r[-1]
\* is the last character of a key
CountLast(keys, word) ==
  Cardinality({i \in 1..Len(keys) : <<keys[i][Len(keys[i])]>> = word})

\* processar_integridade, lines 18-90
processar_integridade(tipo, mae, folder) ==
  LET resultados     == validar_generico(mae, folder, tipos_validos(tipo))
      faltando_count == CountLast(resultados.keys, <<"F", "a", "l", "t", "a", "n", "d", "o">>)
      extra_count    == CountLast(resultados.keys, <<"E", "x", "t", "r", "a">>)
      status_geral   == IF faltando_count > 0 \/ extra_count > 0 THEN "FALHA" ELSE "OK"
  IN [status |-> "done", folder |-> folder, csv |-> resultados.csv,
      retorno |-> [ok |-> status_geral = "OK", status |-> status_geral, tipo |-> tipo]]

\* the children folders a validation is run on: the files the splitter
\* left, or these without one of them
Folders(written) ==
  LET all == {Children(written)[p] : p \in Paths(written)}
  IN {all} \cup {all \ {c} : c \in all}

\* the validation of a mother against a children folder (app.py:85, 121, 144)
Validate ==
  /\ resultado.status \notin {"none", "raised"}
  /\ integridade.status = "none"
  /\ \E folder \in Folders(resultado.written) :
       integridade' = processar_integridade(kind, lines, folder)
  /\ UNCHANGED <<wire, VERIFY_SHA256, catalog, srv, agent, disk, engine, args, up, rota>>

IntegrityNext == EngineNext \/ Validate

IntegritySpec == EngineInit /\ [][IntegrityNext]_vars

\* ================================================================ C28
\* the comparison found a pair that is Faltando or Extra
C28_Divergent == \E r \in integridade.csv : r.status \in {"Faltando", "Extra"}

\* C28: processar_integridade returns status FALHA with ok = false exactly
\* when the comparison found a (PV, type) pair Faltando or Extra, and status
\* OK with ok = true exactly when every pair is OK.
C28_StatusFollowsReport ==
  integridade.status = "done" =>
    /\ (integridade.retorno.status = "FALHA" /\ ~integridade.retorno.ok) = C28_Divergent
    /\ (integridade.retorno.status = "OK" /\ integridade.retorno.ok) = ~C28_Divergent

\* what the function returns: OK with ok = true, whatever the report holds
C28_AlwaysOK ==
  integridade.status = "done" =>
    integridade.retorno.status = "OK" /\ integridade.retorno.ok

\* ================================================================ C29
\* the folder holds exactly the files the splitter produced from the mother
C29_ExactFolder ==
  /\ integridade.status = "done"
  /\ integridade.folder = {Children(resultado.written)[p] : p \in Paths(resultado.written)}

\* C29: when the children folder holds exactly the files the splitter
\* produced from a mother, the validator reports OK for every (PV, type)
\* pair, for each of EEVC, EEVD and EEFI.
C29_SplitValidates ==
  C29_ExactFolder => \A r \in integridade.csv : r.status = "OK"

\* the same for one kind
C29_EEVC == (C29_ExactFolder /\ kind = "EEVC") => \A r \in integridade.csv : r.status = "OK"
C29_EEVD == (C29_ExactFolder /\ kind = "EEVD") => \A r \in integridade.csv : r.status = "OK"
C29_EEFI == (C29_ExactFolder /\ kind = "EEFI") => \A r \in integridade.csv : r.status = "OK"

====
